---- MODULE Spec2Model ----
(***************************************************************************)
(* The document-to-chronology pipeline of medchron-builder-ai.             *)
(*                                                                         *)
(* The repository holds two builds of the App component:                   *)
(*   - the case-based App (src/unnamed/part_002): state `cases`,           *)
(*     `activeCaseId`, persisted to localStorage;                          *)
(*   - the single-list App (src/unnamed/part_001): state `documents`,      *)
(*     with per-document delete and reset.                                 *)
(* `build` records which of the two is running; a behaviour is a run of    *)
(* one build.                                                              *)
(*                                                                         *)
(* React semantics used: setX(prev => f(prev)) updaters are applied in     *)
(* the order they were issued, every one of them before the next render;   *)
(* the effects of a commit run before anything else is rendered.  Hence a  *)
(* handler or promise continuation is one atomic step that applies its     *)
(* updaters, and the effects of the resulting commit are the next step     *)
(* (`effectPending`): no other step is taken while effects are pending.    *)
(***************************************************************************)
EXTENDS Integers, Sequences, FiniteSets, TLC

VARIABLES
    build,          \* "cases" (part_002) or "documents" (part_001)
    phase,          \* "mount" before the first effects ran, then "ready"
    cases,          \* part_002: useState<MedicalCase[]>
    activeCaseId,   \* part_002: useState<string | null>
    documents,      \* part_001: useState<ProcessedDocument[]>
    storage,        \* part_002: localStorage[STORAGE_KEY]
    effectPending,  \* a commit changed an effect dependency; effects not yet run
    calls,          \* processDocument invocations suspended at an await
    nextDocId,      \* uuidv4(): next fresh document id
    nextCaseId,     \* uuidv4(): next fresh case id
    started,        \* history: processDocument invocations per document id
    modelLog,       \* history: model-call events per document id
    lastUpdate,     \* history: the last status update issued per document id,
                    \*          and whether it found the document
    rendering,      \* TRUE when the run follows what the component renders
    selectedDocId,  \* useState<string | null>
    activeCaseEvents, \* useMemo value: activeCaseEvents (part_002), allEvents (part_001)
    events,         \* the `events` prop of TimelineView at the last render
    isExporting,    \* useState(false)
    exported,       \* output: the events the last step handed to
                    \*         exportChronologyToDocx, if it did
    viewingItem,    \* useState<ViewerItem | null> (part_001: viewingEvent)
    viewingDocUrl,  \* useState<string | null>: the object URL on display
    liveUrls,       \* browser: object URLs created and not revoked
    sortedEvents,   \* output: what TimelineView / exportChronologyToDocx lay out
    idbData,        \* IndexedDB store 'data': the value under 'cases_list'
    idbFiles,       \* IndexedDB store 'files': document id -> File
    returned        \* output: what the last storageService call resolved to

vars == <<build, phase, cases, activeCaseId, documents, storage, effectPending,
          calls, nextDocId, nextCaseId, started, modelLog, lastUpdate,
          rendering, selectedDocId, activeCaseEvents, events, isExporting, exported,
          viewingItem, viewingDocUrl, liveUrls,
          sortedEvents, idbData, idbFiles, returned>>

(***************************************************************************)
(* Bounds                                                                  *)
(***************************************************************************)
MaxDocs == 3
MaxCases == 1
MaxBatch == 3
MaxViewDocs == 2
MaxUrls == 2
MaxSortEvents == 3

(***************************************************************************)
(* Program constants and value types                                       *)
(***************************************************************************)
CONCURRENCY_LIMIT == 2

QUEUED == "QUEUED"
GENERATING_PROSE == "GENERATING_PROSE"
EXTRACTING_ENTITIES == "EXTRACTING_ENTITIES"
COMPLETED == "COMPLETED"
ERROR == "ERROR"
ProcessingStatus ==
    {"IDLE", QUEUED, "UPLOADING", GENERATING_PROSE, EXTRACTING_ENTITIES, COMPLETED, ERROR}

\* An optional field (T | undefined) is <<>> when absent and <<v>> when present.
None == <<>>
Some(v) == <<v>>

NoCase == 0     \* activeCaseId === null
NoDoc == 0      \* selectedDocId === null

\* File objects the user can pick.
Files == { [name |-> "a.pdf", type |-> "application/pdf", size |-> 10] }

ProcessedDocument(id, file) ==
    [ id |-> id, name |-> file.name, type |-> file.type, size |-> file.size,
      status |-> QUEUED, proseDescription |-> None, entities |-> None,
      error |-> None, rawFile |-> Some(file) ]


ProcessingStatuses == {GENERATING_PROSE, EXTRACTING_ENTITIES}

Min(S) == CHOOSE x \in S : \A y \in S : x <= y

DocIdsOf(docs) == { docs[i].id : i \in 1..Len(docs) }

\* The documents of every case of the running build, as (caseId, document) pairs.
AllDocs ==
    IF build = "cases"
    THEN UNION { { <<cases[i].id, cases[i].documents[j]>> :
                      j \in 1..Len(cases[i].documents) } : i \in 1..Len(cases) }
    ELSE { <<NoCase, documents[j]>> : j \in 1..Len(documents) }

\* (caseId, document id) of every document of the running build.
DocKeys == { <<p[1], p[2].id>> : p \in AllDocs }

\* The ids of the documents of the running build.
PresentIds == { p[2].id : p \in AllDocs }

Present(d) == d \in PresentIds

\* The document with id d (ids are unique over all cases).
Doc(d) == (CHOOSE p \in AllDocs : p[2].id = d)[2]

CaseOf(d) == (CHOOSE p \in AllDocs : p[2].id = d)[1]

\* The document lists of the running build, keyed by case id.
CaseIds == IF build = "cases" THEN { cases[i].id : i \in 1..Len(cases) } ELSE {NoCase}

DocsOf(caseId) ==
    IF build = "cases"
    THEN (CHOOSE c \in { cases[i] : i \in 1..Len(cases) } : c.id = caseId).documents
    ELSE documents

(***************************************************************************)
(* The model capability (external): what a call may answer                 *)
(***************************************************************************)
\* Stage 1: the file cannot be read, the API call rejects, or a response
\* with a text.
ProseResponses ==
    { [kind |-> "read_error", text |-> ""],
      [kind |-> "api_error",  text |-> ""],
      [kind |-> "text",       text |-> "[Page 1] Seen on 2024-01-02."] }

Fact1 == [ category |-> "Diagnosis", detail |-> "Seen", pageNumber |-> Some(1),
           quote |-> Some("Seen on 2024-01-02.") ]
Entry1 == [ date |-> "2024-01-02", summary |-> "Visit", facts |-> <<Fact1>> ]

\* Stage 2: the API call rejects, or a response text that is not JSON, or is
\* the JSON text of `value`.
EntityResponses ==
    { [kind |-> "api_error", json |-> FALSE, value |-> <<>>],
      [kind |-> "text",      json |-> FALSE, value |-> <<>>],
      [kind |-> "text",      json |-> TRUE,  value |-> <<Entry1>>] }

\* generateDocumentProse: the returned string, or a throw.
generateDocumentProse(resp) ==
    IF resp.kind = "text"
    THEN [ threw |-> FALSE,
           value |-> IF resp.text = "" THEN "No description generated." ELSE resp.text ]
    ELSE [ threw |-> TRUE, value |-> "" ]

\* Mutant of extractEntitiesFromProse: an empty response text is parsed like
\* any other, and JSON.parse throws.
extractEntitiesFromProseParsesEmpty(resp) ==
    CASE resp.kind = "api_error" -> [ threw |-> TRUE,  value |-> <<>> ]
      [] resp.kind = "empty"     -> [ threw |-> TRUE,  value |-> <<>> ]
      [] OTHER -> IF resp.json THEN [ threw |-> FALSE, value |-> resp.value ]
                               ELSE [ threw |-> TRUE,  value |-> <<>> ]

\* extractEntitiesFromProse: the returned list, or a throw.
extractEntitiesFromProse(resp) ==
    CASE resp.kind = "api_error" -> [ threw |-> TRUE,  value |-> <<>> ]
      [] resp.kind = "empty"     -> [ threw |-> FALSE, value |-> <<>> ]
      [] OTHER -> IF resp.json THEN [ threw |-> FALSE, value |-> resp.value ]
                               ELSE [ threw |-> TRUE,  value |-> <<>> ]

(***************************************************************************)
(* State updaters                                                          *)
(***************************************************************************)
\* The argument of one status update: the status and the Partial<ProcessedDocument>
\* spread after it; a key the update does not carry is None.
Update(status, prose, entities, error) ==
    [ status |-> status, proseDescription |-> prose, entities |-> entities,
      error |-> error ]

\* Mutant of Merge: the update replaces the document's data instead of being
\* spread over it.
MergeReplace(d, u) ==
    [ d EXCEPT !.status = u.status,
               !.proseDescription = u.proseDescription,
               !.entities = u.entities,
               !.error = u.error ]

\* { ...d, status, ...updates }
Merge(d, u) ==
    [ d EXCEPT !.status = u.status,
               !.proseDescription = IF u.proseDescription # None THEN u.proseDescription ELSE @,
               !.entities = IF u.entities # None THEN u.entities ELSE @,
               !.error = IF u.error # None THEN u.error ELSE @ ]

\* Mutant of setDocumentById: the update is applied to every document.
setDocumentAll(prev, docId, u) ==
    [ j \in 1..Len(prev) |-> Merge(prev[j], u) ]

\* Mutant of setDocumentById: a document that is not in the list is added.
setDocumentUpsert(prev, docId, u) ==
    IF docId \in DocIdsOf(prev)
    THEN [ j \in 1..Len(prev) |->
             IF prev[j].id = docId THEN Merge(prev[j], u) ELSE prev[j] ]
    ELSE Append(prev, Merge([ id |-> docId, name |-> "", type |-> "", size |-> 0,
                              status |-> QUEUED, proseDescription |-> None,
                              entities |-> None, error |-> None, rawFile |-> None ], u))

\* part_001: prev.map(d => d.id === docId ? { ...d, ... } : d)
setDocumentById(prev, docId, u) ==
    [ j \in 1..Len(prev) |->
        IF prev[j].id = docId THEN Merge(prev[j], u) ELSE prev[j] ]

\* Mutant of updateDoc: the update overwrites every document of the case.
updateDocAll(prev, caseId, docId, u) ==
    [ i \in 1..Len(prev) |->
        IF prev[i].id # caseId THEN prev[i]
        ELSE [ prev[i] EXCEPT !.documents =
                 [ j \in 1..Len(prev[i].documents) |-> Merge(prev[i].documents[j], u) ] ] ]

\* part_002: updateDoc inside processDocument(caseId, docId, file)
updateDoc(prev, caseId, docId, u) ==
    [ i \in 1..Len(prev) |->
        IF prev[i].id # caseId THEN prev[i]
        ELSE [ prev[i] EXCEPT !.documents =
                 [ j \in 1..Len(prev[i].documents) |->
                     IF prev[i].documents[j].id = docId
                     THEN Merge(prev[i].documents[j], u)
                     ELSE prev[i].documents[j] ] ] ]

\* Mutant of addDocsToCase: the new documents are put before the existing ones.
addDocsToCaseFront(prev, caseId, docs) ==
    [ i \in 1..Len(prev) |->
        IF prev[i].id = caseId
        THEN [ prev[i] EXCEPT !.documents = docs \o @ ]
        ELSE prev[i] ]

\* part_002 handleFilesSelected: prev.map(c => c.id === activeCaseId ? {...c,
\* documents: [...c.documents, ...newDocs]} : c)
addDocsToCase(prev, caseId, docs) ==
    [ i \in 1..Len(prev) |->
        IF prev[i].id = caseId
        THEN [ prev[i] EXCEPT !.documents = @ \o docs ]
        ELSE prev[i] ]

\* part_002 handleDeleteCase: prev.filter(c => c.id !== id)
removeCase(prev, id) == SelectSeq(prev, LAMBDA c : c.id # id)

\* part_001 handleDeleteDocument: prev.filter(d => d.id !== docId)
removeDocument(prev, docId) == SelectSeq(prev, LAMBDA d : d.id # docId)

\* Mutant of ErrorMessage: the catch block stores an empty message.
ErrorMessageEmpty == ""

\* The error message each build stores in its catch block.
ErrorMessage ==
    IF build = "cases" THEN "Processing failed."
    ELSE "Processing failed. Please try again."

(***************************************************************************)
(* Scheduler                                                               *)
(***************************************************************************)
\* Mutant of processingCount: documents in stage 2 are not counted.
processingCountStage1(docs) ==
    Cardinality({ j \in 1..Len(docs) : docs[j].status = GENERATING_PROSE })

\* Mutant of processingCount: failed documents keep their slot.
processingCountWithFailed(docs) ==
    Cardinality({ j \in 1..Len(docs) : docs[j].status \in ProcessingStatuses \cup {ERROR} })

processingCount(docs) ==
    Cardinality({ j \in 1..Len(docs) : docs[j].status \in ProcessingStatuses })

Max(S) == CHOOSE x \in S : \A y \in S : x >= y

\* Mutant of findQueued: the last QUEUED document is taken.
findQueuedLast(docs) ==
    LET I == { j \in 1..Len(docs) : docs[j].status = QUEUED }
    IN  IF I = {} THEN None ELSE Some(docs[Max(I)])

\* Mutant of findQueued: a failed document is taken again.
findQueuedOrFailed(docs) ==
    LET I == { j \in 1..Len(docs) : docs[j].status \in {QUEUED, ERROR} }
    IN  IF I = {} THEN None ELSE Some(docs[Min(I)])

\* docs.find(d => d.status === QUEUED), as an optional value
findQueued(docs) ==
    LET I == { j \in 1..Len(docs) : docs[j].status = QUEUED }
    IN  IF I = {} THEN None ELSE Some(docs[Min(I)])

\* Mutant of nextDoc: admits while the count is <= CONCURRENCY_LIMIT.
nextDocOffByOne(docs) ==
    IF processingCount(docs) <= CONCURRENCY_LIMIT
    THEN LET n == findQueued(docs)
         IN  IF n # None /\ n[1].rawFile # None THEN n ELSE None
    ELSE None

\* Mutant of nextDoc: the binary handle is not checked.
nextDocNoHandleCheck(docs) ==
    IF processingCount(docs) < CONCURRENCY_LIMIT
    THEN findQueued(docs)
    ELSE None

\* Mutant of nextDoc: a QUEUED document without a handle is skipped and the
\* first QUEUED document that has one is taken.
nextDocSkipsHandleless(docs) ==
    IF processingCount(docs) < CONCURRENCY_LIMIT
    THEN LET I == { j \in 1..Len(docs) :
                      docs[j].status = QUEUED /\ docs[j].rawFile # None }
         IN  IF I = {} THEN None ELSE Some(docs[Min(I)])
    ELSE None

\* The document one evaluation of the queue effect admits, if any.
nextDoc(docs) ==
    IF processingCount(docs) < CONCURRENCY_LIMIT
    THEN LET n == findQueued(docs)
         IN  IF n # None /\ n[1].rawFile # None THEN n ELSE None
    ELSE None

findCase(cs, id) ==
    LET I == { i \in 1..Len(cs) : cs[i].id = id }
    IN  IF I = {} THEN None ELSE Some(cs[Min(I)])

(***************************************************************************)
(* Persistence (part_002, localStorage)                                    *)
(***************************************************************************)
NullStorage == [ present |-> FALSE, json |-> FALSE, value |-> <<>> ]
CorruptStorage == [ present |-> TRUE, json |-> FALSE, value |-> <<>> ]

\* Mutant of StripDoc: the binary handle is stored with the document.
StripDocKeepHandle(d) == d

\* ({ rawFile, ...rest }) => rest
StripDoc(d) == [ f \in DOMAIN d \ {"rawFile"} |-> d[f] ]

\* The optional properties of a ProcessedDocument (undefined when None).
OptionalFields == { "proseDescription", "entities", "error", "rawFile" }

\* Mutant of stringifyDoc: the error message is left out as well.
stringifyDocWithoutError(d) ==
    [ f \in { g \in DOMAIN d : g \in OptionalFields => d[g] # None } \ {"error"} |-> d[f] ]

\* JSON.stringify of a document: a property whose value is undefined is left out.
stringifyDoc(d) ==
    [ f \in { g \in DOMAIN d : g \in OptionalFields => d[g] # None } |-> d[f] ]

\* JSON.stringify(cases.map(c => ({...c, documents: c.documents.map(strip)})))
Serialize(cs) ==
    [ present |-> TRUE, json |-> TRUE,
      value |-> [ i \in 1..Len(cs) |->
                    [ cs[i] EXCEPT !.documents =
                        [ j \in 1..Len(cs[i].documents) |->
                            stringifyDoc(StripDoc(cs[i].documents[j])) ] ] ] ]

\* The properties of a ProcessedDocument the program reads.
DocFields ==
    { "id", "name", "type", "size", "status", "proseDescription", "entities",
      "error", "rawFile" }

\* A parsed document as the program reads it: a property the object lacks
\* reads as undefined.
reviveDoc(d) == [ f \in DocFields |-> IF f \in DOMAIN d THEN d[f] ELSE None ]

\* JSON.parse(saved) and the revival of the cases; [] when nothing usable is stored.
loadCases(st) ==
    IF st.present /\ st.json
    THEN [ i \in 1..Len(st.value) |->
             [ st.value[i] EXCEPT !.documents =
                 [ j \in 1..Len(st.value[i].documents) |->
                     reviveDoc(st.value[i].documents[j]) ] ] ]
    ELSE <<>>


\* What a previous session may have left in localStorage: nothing, a value
\* that is not JSON, or the snapshot of a case that was stored when its first
\* document had been admitted and its second one was still QUEUED.
StoredCaseId == 1

StoredDoc(id, status) ==
    [ id |-> id, name |-> "a.pdf", type |-> "application/pdf", size |-> 10,
      status |-> status, proseDescription |-> None, entities |-> None,
      error |-> None, rawFile |-> None ]

StoredCases ==
    << [ id |-> StoredCaseId, name |-> "Smith",
         documents |-> << StoredDoc(1, GENERATING_PROSE), StoredDoc(2, QUEUED) >> ] >>

InitialStorage == { NullStorage, CorruptStorage, Serialize(StoredCases) }

StoredDocCount(st) ==
    IF st.json THEN Cardinality(UNION { DocIdsOf(st.value[i].documents) : i \in 1..Len(st.value) })
    ELSE 0

(***************************************************************************)
(* Initial state: the component before its first effects ran               *)
(***************************************************************************)
DocIds == 1..MaxDocs

\* Case ids: the case of the previous session and the cases created in this one.
CaseIdSet == 1..(StoredCaseId + MaxCases)

\* lastUpdate of a document for which no update was issued yet
NoUpdate == [ update |-> Update("IDLE", None, None, None), found |-> FALSE ]

\* `stores` is what the previous session of the case-based build may have
\* left; `firstCaseId` is the first case id uuidv4 hands out.
InitApp(stores, firstCaseId) ==
    /\ build \in {"cases", "documents"}
    /\ phase = "mount"
    /\ cases = <<>>
    /\ activeCaseId = NoCase
    /\ documents = <<>>
    /\ storage \in (IF build = "cases" THEN stores ELSE {NullStorage})
    /\ effectPending = FALSE
    /\ calls = {}
    /\ nextDocId = 1 + StoredDocCount(storage)
    /\ nextCaseId = firstCaseId
    /\ started = [ d \in DocIds |-> 0 ]
    /\ modelLog = [ d \in DocIds |-> <<>> ]
    /\ lastUpdate = [ d \in DocIds |-> NoUpdate ]
    /\ selectedDocId = NoDoc
    /\ activeCaseEvents = <<>>
    /\ isExporting = FALSE
    /\ exported = None
    /\ viewingItem = None
    /\ viewingDocUrl = None
    /\ liveUrls = {}
    /\ sortedEvents = None
    /\ idbFiles = [ d \in DocIds |-> None ]
    /\ returned = None

\* Before the first render TimelineView has no events; the App does not
\* use the IndexedDB stores.
InitWith(stores, firstCaseId) ==
    InitApp(stores, firstCaseId) /\ events = <<>> /\ idbData = None

InitFrom(stores) == InitWith(stores, 1 + StoredCaseId)

InitPipeline == InitFrom(InitialStorage)

\* Spec follows the pipeline and leaves the rendered view aside.
Init == InitPipeline /\ rendering = FALSE

\* The documents a run may upload.
DocBudget == IF rendering THEN MaxViewDocs ELSE MaxDocs

Ready == phase = "ready" /\ ~effectPending

\* The calls in flight for document id d.
CallsOf(d) == { c \in calls : c.docId = d }

\* The history of a document ends when the document is removed and no
\* invocation for it is in flight: nothing refers to its id any more.
Forget(removed) ==
    /\ modelLog' = [ d \in DocIds |->
                       IF d \in removed /\ CallsOf(d) = {} THEN <<>> ELSE modelLog[d] ]
    /\ lastUpdate' = [ d \in DocIds |->
                         IF d \in removed /\ CallsOf(d) = {} THEN NoUpdate
                         ELSE lastUpdate[d] ]

(***************************************************************************)
(* The rendered view: the case timeline projection                         *)
(***************************************************************************)
RECURSIVE Flatten(_)
Flatten(ss) == IF ss = <<>> THEN <<>> ELSE Head(ss) \o Flatten(Tail(ss))

\* The uuids carried by the event lists of the state.
UuidsOf(es) == { es[n].id : n \in 1..Len(es) }

UsedUuids ==
    UuidsOf(activeCaseEvents) \cup UuidsOf(events)
       \cup (IF exported = None THEN {} ELSE UuidsOf(exported[1]))

\* uuidv4(), n times: n ids that differ from each other and from every id in
\* `used` (the least such ids, as ids are only ever compared for equality).
RECURSIVE uuidv4(_, _)
uuidv4(used, n) ==
    IF n = 0 THEN <<>>
    ELSE LET k == CHOOSE k \in 1..(Cardinality(used) + 1) :
                     k \notin used /\ \A j \in 1..(k - 1) : j \in used
         IN  <<k>> \o uuidv4(used \cup {k}, n - 1)

\* { ...e, sourceDocumentId: d.id, sourceDocumentName: d.name, id }
TimelineEvent(e, d, id) ==
    [ sourceDocumentId |-> d.id, sourceDocumentName |-> d.name, id |-> id ] @@ e

\* (d.entities || []).map(e => ({...e, sourceDocumentId, sourceDocumentName, id: uuidv4()}))
documentEvents(d, ids) ==
    LET es == IF d.entities = None THEN <<>> ELSE d.entities[1]
    IN  [ k \in 1..Len(es) |-> TimelineEvent(es[k], d, ids[k]) ]

\* Mutant of flatMapEvents: every entry is stamped with the first document.
flatMapEventsFirstDoc(docs, ids) ==
    LET sel == SelectSeq(docs, LAMBDA d : d.status = COMPLETED /\ d.entities # None)
        raw == Flatten([ i \in 1..Len(sel) |->
                          [ k \in 1..Len(sel[i].entities[1]) |->
                              << sel[1], sel[i].entities[1][k] >> ] ])
    IN  [ n \in 1..Len(raw) |-> TimelineEvent(raw[n][2], raw[n][1], ids[n]) ]

\* docs.filter(d => d.status === COMPLETED && d.entities).flatMap(d => ...)
flatMapEvents(docs, ids) ==
    LET sel == SelectSeq(docs, LAMBDA d : d.status = COMPLETED /\ d.entities # None)
        raw == Flatten([ i \in 1..Len(sel) |->
                          [ k \in 1..Len(sel[i].entities[1]) |->
                              << sel[i], sel[i].entities[1][k] >> ] ])
    IN  [ n \in 1..Len(raw) |-> TimelineEvent(raw[n][2], raw[n][1], ids[n]) ]

\* The number of events flatMapEvents makes for docs.
eventCount(docs) ==
    Len(Flatten([ i \in 1..Len(docs) |->
                    IF docs[i].status = COMPLETED /\ docs[i].entities # None
                    THEN docs[i].entities[1] ELSE <<>> ]))

\* documents.find(d => d.id === selectedDocId), as an optional value
findDocument(docs, id) ==
    LET I == { j \in 1..Len(docs) : docs[j].id = id }
    IN  IF I = {} THEN None ELSE Some(docs[Min(I)])

KeepViewer == UNCHANGED <<viewingItem, viewingDocUrl, liveUrls>>

\* The App neither lays out a timeline on its own nor calls storageService.
KeepServices == UNCHANGED <<sortedEvents, idbData, idbFiles, returned>>

\* A step that commits no state: nothing is rendered.
NoRender ==
    /\ KeepServices
    /\ exported' = None
    /\ UNCHANGED <<rendering, selectedDocId, activeCaseEvents, events, isExporting>>
    /\ KeepViewer

\* The render that follows a commit.  `docs` is the document list on screen
\* after the step (None when no case is shown), `recompute` tells whether the
\* dependency of the useMemo changed, `sel` and `exporting` are the new
\* selectedDocId and isExporting, `exp` is what the step exports.
RenderProjection(docs, recompute, sel, exporting, exp) ==
    /\ UNCHANGED rendering
    /\ KeepServices
    /\ IF ~rendering
       THEN UNCHANGED <<selectedDocId, activeCaseEvents, events, isExporting, exported>>
       ELSE LET memo == IF ~recompute THEN activeCaseEvents
                        ELSE IF docs = None THEN <<>>
                        ELSE flatMapEvents(docs[1], uuidv4(UsedUuids, eventCount(docs[1])))
                selectedDocument == IF docs = None THEN None ELSE findDocument(docs[1], sel)
                used == UsedUuids \cup UuidsOf(memo)
                           \cup (IF exp = None THEN {} ELSE UuidsOf(exp[1]))
            IN  /\ selectedDocId' = sel
                /\ isExporting' = exporting
                /\ exported' = exp
                /\ activeCaseEvents' = memo
                /\ events' = IF docs = None THEN <<>>
                             ELSE IF selectedDocument = None THEN memo
                             ELSE LET d == selectedDocument[1]
                                      n == IF d.entities = None THEN 0 ELSE Len(d.entities[1])
                                  IN  documentEvents(d, uuidv4(used, n))

\* The render that follows a commit which leaves the viewer state alone.
Render(docs, recompute, sel, exporting, exp) ==
    /\ RenderProjection(docs, recompute, sel, exporting, exp)
    /\ KeepViewer

\* The document list on screen for given values of the state.
Shown(cs, active, docs) ==
    IF build = "documents" THEN Some(docs)
    ELSE LET c == findCase(cs, active)
         IN  IF c = None THEN None ELSE Some(c[1].documents)

(***************************************************************************)
(* processDocument                                                         *)
(***************************************************************************)
\* Mutant of ApplyUpdate: the update goes to the case that is active when
\* it is applied, not to the case the invocation was started for.
ApplyUpdateToActiveCase(caseId, docId, u) ==
    /\ IF build = "cases"
       THEN cases' = updateDoc(cases, activeCaseId, docId, u) /\ UNCHANGED documents
       ELSE documents' = setDocumentById(documents, docId, u) /\ UNCHANGED cases
    /\ lastUpdate' = [ lastUpdate EXCEPT ![docId] =
                        [ update |-> u, found |-> <<caseId, docId>> \in DocKeys ] ]
    /\ effectPending' = TRUE
    /\ Render(Shown(cases', activeCaseId, documents'),
              build = "documents" \/ caseId = activeCaseId, selectedDocId, isExporting, None)

\* Applies one status update of the invocation (caseId, docId) to the state
\* of the running build and records it as the latest one issued for docId.
ApplyUpdate(caseId, docId, u) ==
    /\ IF build = "cases"
       THEN cases' = updateDoc(cases, caseId, docId, u) /\ UNCHANGED documents
       ELSE documents' = setDocumentById(documents, docId, u) /\ UNCHANGED cases
    /\ lastUpdate' = [ lastUpdate EXCEPT ![docId] =
                        [ update |-> u, found |-> <<caseId, docId>> \in DocKeys ] ]
    /\ effectPending' = TRUE
    /\ Render(Shown(cases', activeCaseId, documents'),
              build = "documents" \/ caseId = activeCaseId, selectedDocId, isExporting, None)

\* Mutant of StartProcessing: the GENERATING_PROSE update is not applied
\* before the queue effect is evaluated again.
StartProcessingUpdateLate(caseId, doc) ==
    /\ UNCHANGED <<cases, documents, lastUpdate>>
    /\ effectPending' = TRUE
    /\ NoRender
    /\ calls' = calls \cup
         { [ caseId |-> caseId, docId |-> doc.id, inv |-> started[doc.id] + 1,
             file |-> doc.rawFile, stage |-> "prose", prose |-> "" ] }
    /\ started' = [ started EXCEPT ![doc.id] = @ + 1 ]
    /\ modelLog' = [ modelLog EXCEPT ![doc.id] = Append(@, "prose:start") ]

\* processDocument up to its first await: the GENERATING_PROSE update is
\* issued and the stage-1 call is in flight.
StartProcessing(caseId, doc) ==
    /\ ApplyUpdate(caseId, doc.id, Update(GENERATING_PROSE, None, None, None))
    /\ calls' = calls \cup
         { [ caseId |-> caseId, docId |-> doc.id, inv |-> started[doc.id] + 1,
             file |-> doc.rawFile, stage |-> "prose", prose |-> "" ] }
    /\ started' = [ started EXCEPT ![doc.id] = @ + 1 ]
    /\ modelLog' = [ modelLog EXCEPT ![doc.id] = Append(@, "prose:start") ]

\* Mutant of ProseReturned: stage 2 is called with another string than the
\* one stored in the document.
ProseReturnedPassesOther(c, resp) ==
    /\ Ready
    /\ c \in calls /\ c.stage = "prose"
    /\ LET r == generateDocumentProse(resp)
       IN  /\ ~r.threw
           /\ ApplyUpdate(c.caseId, c.docId,
                          Update(EXTRACTING_ENTITIES, Some(r.value), None, None))
           /\ calls' = (calls \ {c}) \cup { [ c EXCEPT !.stage = "entities" ] }
    /\ modelLog' = [ modelLog EXCEPT
                       ![c.docId] = @ \o <<"prose:ok", "entities:start">> ]
    /\ UNCHANGED <<build, phase, activeCaseId, storage, nextDocId, nextCaseId, started>>

\* await generateDocumentProse(file) returns: the EXTRACTING_ENTITIES update
\* is issued and the stage-2 call is in flight.
ProseReturned(c, resp) ==
    /\ Ready
    /\ c \in calls /\ c.stage = "prose"
    /\ LET r == generateDocumentProse(resp)
       IN  /\ ~r.threw
           /\ ApplyUpdate(c.caseId, c.docId,
                          Update(EXTRACTING_ENTITIES, Some(r.value), None, None))
           /\ calls' = (calls \ {c}) \cup
                         { [ c EXCEPT !.stage = "entities", !.prose = r.value ] }
    /\ modelLog' = [ modelLog EXCEPT
                       ![c.docId] = @ \o <<"prose:ok", "entities:start">> ]
    /\ UNCHANGED <<build, phase, activeCaseId, storage, nextDocId, nextCaseId, started>>

\* Mutant of ProseFailed: the failure of stage 1 is swallowed and stage 2 is
\* started on an empty prose.
ProseFailedContinues(c, resp) ==
    /\ Ready
    /\ c \in calls /\ c.stage = "prose"
    /\ generateDocumentProse(resp).threw
    /\ ApplyUpdate(c.caseId, c.docId, Update(EXTRACTING_ENTITIES, Some(""), None, None))
    /\ calls' = (calls \ {c}) \cup { [ c EXCEPT !.stage = "entities" ] }
    /\ modelLog' = [ modelLog EXCEPT
                       ![c.docId] = @ \o <<"prose:fail", "entities:start">> ]
    /\ UNCHANGED <<build, phase, activeCaseId, storage, nextDocId, nextCaseId, started>>

\* await generateDocumentProse(file) throws: catch block.
ProseFailed(c, resp) ==
    /\ Ready
    /\ c \in calls /\ c.stage = "prose"
    /\ generateDocumentProse(resp).threw
    /\ ApplyUpdate(c.caseId, c.docId, Update(ERROR, None, None, Some(ErrorMessage)))
    /\ calls' = calls \ {c}
    /\ modelLog' = [ modelLog EXCEPT ![c.docId] = Append(@, "prose:fail") ]
    /\ UNCHANGED <<build, phase, activeCaseId, storage, nextDocId, nextCaseId, started>>

\* await extractEntitiesFromProse(prose) returns: the COMPLETED update.
EntitiesReturned(c, resp) ==
    /\ Ready
    /\ c \in calls /\ c.stage = "entities"
    /\ LET r == extractEntitiesFromProse(resp)
       IN  /\ ~r.threw
           /\ ApplyUpdate(c.caseId, c.docId,
                          Update(COMPLETED, None, Some(r.value), None))
    /\ calls' = calls \ {c}
    /\ modelLog' = [ modelLog EXCEPT ![c.docId] = Append(@, "entities:ok") ]
    /\ UNCHANGED <<build, phase, activeCaseId, storage, nextDocId, nextCaseId, started>>

\* Mutant of EntitiesFailed: the document is put back into the queue.
EntitiesFailedRequeues(c, resp) ==
    /\ Ready
    /\ c \in calls /\ c.stage = "entities"
    /\ extractEntitiesFromProse(resp).threw
    /\ ApplyUpdate(c.caseId, c.docId, Update(QUEUED, None, None, None))
    /\ calls' = calls \ {c}
    /\ modelLog' = [ modelLog EXCEPT ![c.docId] = Append(@, "entities:fail") ]
    /\ UNCHANGED <<build, phase, activeCaseId, storage, nextDocId, nextCaseId, started>>

\* await extractEntitiesFromProse(prose) throws: catch block.
EntitiesFailed(c, resp) ==
    /\ Ready
    /\ c \in calls /\ c.stage = "entities"
    /\ extractEntitiesFromProse(resp).threw
    /\ ApplyUpdate(c.caseId, c.docId, Update(ERROR, None, None, Some(ErrorMessage)))
    /\ calls' = calls \ {c}
    /\ modelLog' = [ modelLog EXCEPT ![c.docId] = Append(@, "entities:fail") ]
    /\ UNCHANGED <<build, phase, activeCaseId, storage, nextDocId, nextCaseId, started>>


(***************************************************************************)
(* Effects                                                                 *)
(***************************************************************************)
\* part_002, first render: the load effect reads localStorage and issues
\* setCases(revived); the persistence effect stores the still empty `cases`;
\* the queue effect returns (no active case).  The re-render then commits the
\* loaded cases.
MountCases ==
    /\ build = "cases" /\ phase = "mount"
    /\ phase' = "ready"
    /\ storage' = Serialize(cases)
    /\ IF storage.present /\ storage.json
       THEN cases' = loadCases(storage) /\ effectPending' = TRUE
       ELSE UNCHANGED <<cases, effectPending>>
    /\ UNCHANGED <<build, activeCaseId, documents, calls, nextDocId, nextCaseId,
                   started, modelLog, lastUpdate>>
    /\ IF storage.present /\ storage.json
       THEN Render(Shown(cases', activeCaseId, documents), FALSE, selectedDocId, isExporting, None)
       ELSE NoRender

\* part_001, first render: the queue effect finds no document.
MountDocuments ==
    /\ build = "documents" /\ phase = "mount"
    /\ phase' = "ready"
    /\ UNCHANGED <<build, cases, activeCaseId, documents, storage, effectPending,
                   calls, nextDocId, nextCaseId, started, modelLog, lastUpdate>>
    /\ NoRender

\* part_002, effects of a commit: persistence, then the queue processing loop.
CasesEffects ==
    /\ build = "cases" /\ phase = "ready" /\ effectPending
    /\ storage' = Serialize(cases)
    /\ LET currentCase == findCase(cases, activeCaseId)
           n == IF activeCaseId # NoCase /\ currentCase # None
                THEN nextDoc(currentCase[1].documents) ELSE None
       IN  IF n # None
           THEN StartProcessing(activeCaseId, n[1])
           ELSE /\ effectPending' = FALSE
                /\ NoRender
                /\ UNCHANGED <<cases, documents, calls, started, modelLog, lastUpdate>>
    /\ UNCHANGED <<build, phase, activeCaseId, nextDocId, nextCaseId>>

\* part_001, effects of a commit: the queue processing effect.
DocumentsEffects ==
    /\ build = "documents" /\ phase = "ready" /\ effectPending
    /\ LET n == nextDoc(documents)
       IN  IF n # None
           THEN StartProcessing(NoCase, n[1])
           ELSE /\ effectPending' = FALSE
                /\ NoRender
                /\ UNCHANGED <<cases, documents, calls, started, modelLog, lastUpdate>>
    /\ UNCHANGED <<build, phase, activeCaseId, storage, nextDocId, nextCaseId>>

(***************************************************************************)
(* User actions                                                            *)
(***************************************************************************)
\* Uploader.handleFileChange hands over the chosen files when there is at least one.
Batches == UNION { [1..n -> Files] : n \in 1..MaxBatch }

CaseNames == {"Smith"}

newDocs(files) == [ k \in 1..Len(files) |-> ProcessedDocument(nextDocId + k - 1, files[k]) ]

\* part_002 handleCreateCase; `name` is the prompt's answer ("" when cancelled).
\* Both "New Case" buttons are rendered only while no case is shown.
handleCreateCase(name) ==
    /\ build = "cases" /\ Ready
    /\ findCase(cases, activeCaseId) = None
    /\ nextCaseId \in CaseIdSet
    /\ IF name = ""
       THEN UNCHANGED <<cases, activeCaseId, nextCaseId, effectPending>>
       ELSE /\ cases' = << [ id |-> nextCaseId, name |-> name, documents |-> <<>> ] >>
                          \o cases
            /\ activeCaseId' = nextCaseId
            /\ nextCaseId' = nextCaseId + 1
            /\ effectPending' = TRUE
    /\ UNCHANGED <<build, phase, documents, storage, calls, nextDocId,
                   started, modelLog, lastUpdate>>
    /\ IF name = ""
       THEN NoRender
       ELSE Render(Shown(cases', activeCaseId', documents), TRUE, selectedDocId, isExporting, None)

\* part_002: a case of the case list is clicked (list shown when no case is active).
SelectCase(id) ==
    /\ build = "cases" /\ Ready
    /\ activeCaseId = NoCase
    /\ findCase(cases, id) # None
    /\ activeCaseId' = id
    /\ effectPending' = TRUE
    /\ UNCHANGED <<build, phase, cases, documents, storage, calls, nextDocId,
                   nextCaseId, started, modelLog, lastUpdate>>
    /\ Render(Shown(cases, activeCaseId', documents), TRUE, selectedDocId, isExporting, None)

\* part_002: the "All Cases" button (shown when a case is active):
\* setActiveCaseId(null); setSelectedDocId(null).
AllCases ==
    /\ build = "cases" /\ Ready
    /\ activeCaseId # NoCase
    /\ activeCaseId' = NoCase
    /\ effectPending' = TRUE
    /\ UNCHANGED <<build, phase, cases, documents, storage, calls, nextDocId,
                   nextCaseId, started, modelLog, lastUpdate>>
    /\ Render(None, TRUE, NoDoc, isExporting, None)

\* part_002 handleFilesSelected
handleFilesSelected(files) ==
    /\ build = "cases" /\ Ready
    /\ nextDocId + Len(files) - 1 <= DocBudget
    /\ IF activeCaseId = NoCase
       THEN UNCHANGED <<cases, nextDocId, effectPending>>
       ELSE /\ cases' = addDocsToCase(cases, activeCaseId, newDocs(files))
            /\ nextDocId' = nextDocId + Len(files)
            /\ effectPending' = TRUE
    /\ UNCHANGED <<build, phase, activeCaseId, documents, storage, calls,
                   nextCaseId, started, modelLog, lastUpdate>>
    /\ IF activeCaseId = NoCase
       THEN NoRender
       ELSE Render(Shown(cases', activeCaseId, documents), TRUE, selectedDocId, isExporting, None)

\* part_002 handleDeleteCase (confirmed); the delete button is part of the
\* case list, shown when no case is active.
handleDeleteCase(id) ==
    /\ build = "cases" /\ Ready
    /\ activeCaseId = NoCase
    /\ findCase(cases, id) # None
    /\ cases' = removeCase(cases, id)
    /\ activeCaseId' = IF activeCaseId = id THEN NoCase ELSE activeCaseId
    /\ effectPending' = TRUE
    /\ Forget(DocIdsOf(findCase(cases, id)[1].documents))
    /\ UNCHANGED <<build, phase, documents, storage, calls, nextDocId,
                   nextCaseId, started>>
    /\ Render(Shown(cases', activeCaseId', documents), FALSE, selectedDocId, isExporting, None)

\* part_001 handleFilesSelected
handleFilesSelectedDocuments(files) ==
    /\ build = "documents" /\ Ready
    /\ nextDocId + Len(files) - 1 <= DocBudget
    /\ documents' = documents \o newDocs(files)
    /\ nextDocId' = nextDocId + Len(files)
    /\ effectPending' = TRUE
    /\ UNCHANGED <<build, phase, cases, activeCaseId, storage, calls,
                   nextCaseId, started, modelLog, lastUpdate>>
    /\ Render(Some(documents'), TRUE, selectedDocId, isExporting, None)

\* part_001 handleDeleteDocument (confirmed)
handleDeleteDocument(docId) ==
    /\ build = "documents" /\ Ready
    /\ docId \in DocIdsOf(documents)
    /\ documents' = removeDocument(documents, docId)
    /\ effectPending' = TRUE
    /\ Forget({docId})
    /\ UNCHANGED <<build, phase, cases, activeCaseId, storage, calls, nextDocId,
                   nextCaseId, started>>
    /\ Render(Some(documents'), TRUE,
              IF selectedDocId = docId THEN NoDoc ELSE selectedDocId, isExporting, None)

\* part_001 handleResetCase (confirmed when documents exist)
handleResetCase ==
    /\ build = "documents" /\ Ready
    /\ documents' = <<>>
    /\ effectPending' = TRUE
    /\ Forget(DocIdsOf(documents))
    /\ UNCHANGED <<build, phase, cases, activeCaseId, storage, calls, nextDocId,
                   nextCaseId, started>>
    /\ RenderProjection(Some(documents'), TRUE, NoDoc, isExporting, None)
    /\ viewingItem' = None
    /\ UNCHANGED <<viewingDocUrl, liveUrls>>

Next ==
    \/ MountCases
    \/ MountDocuments
    \/ CasesEffects
    \/ DocumentsEffects
    \/ \E name \in CaseNames \cup {""} : handleCreateCase(name)
    \/ \E id \in CaseIdSet : SelectCase(id)
    \/ AllCases
    \/ \E files \in Batches : handleFilesSelected(files)
    \/ \E id \in CaseIdSet : handleDeleteCase(id)
    \/ \E files \in Batches : handleFilesSelectedDocuments(files)
    \/ \E docId \in DocIds : handleDeleteDocument(docId)
    \/ handleResetCase
    \/ \E c \in calls, resp \in ProseResponses : ProseReturned(c, resp)
    \/ \E c \in calls, resp \in ProseResponses : ProseFailed(c, resp)
    \/ \E c \in calls, resp \in EntityResponses : EntitiesReturned(c, resp)
    \/ \E c \in calls, resp \in EntityResponses : EntitiesFailed(c, resp)

Spec == Init /\ [][Next]_vars

\* React runs the effects of every commit: an effect that is due is not
\* postponed forever.
SpecLive ==
    Init /\ [][Next]_vars /\ WF_vars(CasesEffects) /\ WF_vars(DocumentsEffects)

\* A model call in flight returns or throws.
CallEnds ==
    \E c \in calls :
       \/ \E resp \in ProseResponses : ProseReturned(c, resp) \/ ProseFailed(c, resp)
       \/ \E resp \in EntityResponses : EntitiesReturned(c, resp) \/ EntitiesFailed(c, resp)

\* The effects of every commit run, and every model call ends: the
\* continuation of an awaited call is a task of its own, which user input
\* that keeps committing state cannot postpone for ever.
SpecFair ==
    /\ Init /\ [][Next]_vars
    /\ WF_vars(CasesEffects) /\ WF_vars(DocumentsEffects) /\ SF_vars(CallEnds)

(***************************************************************************)
(* The date order of the timeline view and of the export                   *)
(***************************************************************************)
\* The date strings of the entries: two dates in the preferred form and two
\* that stage 2 could not bring into it.
SortDates == { "2024-01-02", "2024-01-10", "Unknown", "march 2020" }

\* The UTF-16 code units of a date string.
CodeUnits(date) ==
    CASE date = "2024-01-02" -> <<50, 48, 50, 52, 45, 48, 49, 45, 48, 50>>
      [] date = "2024-01-10" -> <<50, 48, 50, 52, 45, 48, 49, 45, 49, 48>>
      [] date = "Unknown"    -> <<85, 110, 107, 110, 111, 119, 110>>
      [] date = "march 2020" -> <<109, 97, 114, 99, 104, 32, 50, 48, 50, 48>>

\* Collation of the characters above: a letter has the primary weight of
\* its lower-case form (space < hyphen < digits < letters), and at equal
\* primary weights lower case comes before upper case.
IsUpper(u) == u \in 65..90
PrimaryWeight(u) == IF IsUpper(u) THEN u + 32 ELSE u
TertiaryWeight(u) == IF IsUpper(u) THEN 1 ELSE 0

\* -1, 0 or 1: the order of two sequences of numbers, position by position;
\* a proper prefix comes first.
RECURSIVE SeqCompare(_, _)
SeqCompare(a, b) ==
    IF a = <<>> THEN (IF b = <<>> THEN 0 ELSE -1)
    ELSE IF b = <<>> THEN 1
    ELSE IF Head(a) < Head(b) THEN -1
    ELSE IF Head(a) > Head(b) THEN 1
    ELSE SeqCompare(Tail(a), Tail(b))

\* a.localeCompare(b): the order of the collation keys.
localeCompare(a, b) ==
    LET primary == SeqCompare([ i \in 1..Len(CodeUnits(a)) |-> PrimaryWeight(CodeUnits(a)[i]) ],
                              [ i \in 1..Len(CodeUnits(b)) |-> PrimaryWeight(CodeUnits(b)[i]) ])
    IN  IF primary # 0 THEN primary
        ELSE SeqCompare([ i \in 1..Len(CodeUnits(a)) |-> TertiaryWeight(CodeUnits(a)[i]) ],
                        [ i \in 1..Len(CodeUnits(b)) |-> TertiaryWeight(CodeUnits(b)[i]) ])

\* Array.prototype.sort is stable: x goes behind every element of the
\* sorted list that does not compare greater than x.
RECURSIVE insertSorted(_, _)
insertSorted(sorted, x) ==
    IF sorted = <<>> THEN <<x>>
    ELSE IF localeCompare(Head(sorted).date, x.date) > 0 THEN <<x>> \o sorted
    ELSE <<Head(sorted)>> \o insertSorted(Tail(sorted), x)

\* [...events].sort((a, b) => a.date.localeCompare(b.date))
RECURSIVE sortByDate(_)
\* Mutant of sortByDate: the first element is placed last, behind the
\* later elements that compare equal to it.
sortByDateFromFront(es) ==
    IF es = <<>> THEN <<>>
    ELSE insertSorted(sortByDate(Tail(es)), Head(es))

sortByDate(es) ==
    IF es = <<>> THEN <<>>
    ELSE insertSorted(sortByDate(SubSeq(es, 1, Len(es) - 1)), es[Len(es)])

\* The table rows of the export: one per fact, in the order of the facts
\* of each entry.
tableRows(es) ==
    Flatten([ n \in 1..Len(es) |->
                [ k \in 1..Len(es[n].facts) |->
                    [ date |-> es[n].date, category |-> es[n].facts[k].category,
                      detail |-> es[n].facts[k].detail,
                      pageNumber |-> es[n].facts[k].pageNumber,
                      sourceDocumentName |-> es[n].sourceDocumentName ] ] ])

\* The facts of an entry: entry 2 has two.
SortFacts(id) ==
    IF id = 2
    THEN << Fact1, [ category |-> "Treatment", detail |-> "Admitted",
                     pageNumber |-> None, quote |-> None ] >>
    ELSE << Fact1 >>

\* The lists of events TimelineView and exportChronologyToDocx are given.
SortInputs ==
    UNION { { [ n \in 1..len |->
                  [ id |-> n, date |-> dates[n], summary |-> "Visit",
                    facts |-> SortFacts(n), sourceDocumentId |-> 1,
                    sourceDocumentName |-> "a.pdf" ] ] :
              dates \in [1..len -> SortDates] } : len \in 0..MaxSortEvents }

InitSort ==
    /\ InitApp({NullStorage}, 1 + StoredCaseId)
    /\ idbData = None
    /\ build = "cases" /\ rendering = TRUE
    /\ events \in SortInputs

\* What the steps of the sort leave alone: the state of the App.
KeepApp ==
    UNCHANGED <<build, phase, cases, activeCaseId, documents, storage, effectPending,
                calls, nextDocId, nextCaseId, started, modelLog, lastUpdate, rendering,
                selectedDocId, activeCaseEvents, isExporting, exported,
                viewingItem, viewingDocUrl, liveUrls>>

\* TimelineView: sortedEvents (useMemo over the `events` prop)
TimelineViewSort ==
    /\ sortedEvents' = Some([ by |-> "TimelineView", events |-> sortByDate(events),
                              rows |-> <<>> ])
    /\ UNCHANGED <<events, idbData, idbFiles, returned>>
    /\ KeepApp

\* exportChronologyToDocx(events): the sorted copy and the rows made of it
exportChronologyToDocx ==
    /\ sortedEvents' = Some([ by |-> "exportChronologyToDocx",
                              events |-> sortByDate(events),
                              rows |-> tableRows(sortByDate(events)) ])
    /\ UNCHANGED <<events, idbData, idbFiles, returned>>
    /\ KeepApp

NextSort ==
    \/ TimelineViewSort
    \/ exportChronologyToDocx

SpecSort == InitSort /\ [][NextSort]_vars

(***************************************************************************)
(* storageService (IndexedDB): the compressed snapshot and the files        *)
(***************************************************************************)
\* The File objects handed to saveFile.
StoreFiles == Files \cup { [name |-> "b.png", type |-> "image/png", size |-> 20] }

\* LZString.compressToUTF16 and its inverse; a string that is no output of
\* the compression decompresses to nothing.
compressToUTF16(jsonString) == [ lz |-> TRUE, text |-> jsonString ]
decompressFromUTF16(compressed) ==
    IF compressed.lz THEN compressed.text ELSE NullStorage

\* What the key 'cases_list' may hold when the session starts: nothing, a
\* value that does not decompress, a compressed text that is not JSON, or
\* the compressed snapshot of a case.
InitialSnapshots ==
    { None, Some([ lz |-> FALSE, text |-> NullStorage ]),
      Some(compressToUTF16(CorruptStorage)),
      Some(compressToUTF16(Serialize(StoredCases))) }

\* The collections handed to saveCases: none, the revived case, and a case
\* whose document holds its file.
SnapshotInputs ==
    { <<>>, StoredCases,
      << [ id |-> StoredCaseId, name |-> "Smith",
           documents |-> << ProcessedDocument(1, CHOOSE f \in Files : TRUE) >> ] >> }

\* The settled promise of a storageService call.
Returned(op, id, arg, request, outcome, value) ==
    Some([ op |-> op, id |-> id, arg |-> arg, request |-> request,
           outcome |-> outcome, value |-> value ])

InitStorage ==
    /\ InitApp({NullStorage}, 1 + StoredCaseId)
    /\ build = "cases" /\ rendering = FALSE
    /\ events = <<>>
    /\ idbData \in InitialSnapshots

\* saveCases(cases): resolves when the transaction completes, rejects when
\* it fails (nothing is written then).
storageService_saveCases(cs, commits) ==
    /\ idbData' = IF commits THEN Some(compressToUTF16(Serialize(cs))) ELSE idbData
    /\ returned' = Returned("saveCases", NoDoc, cs, IF commits THEN "success" ELSE "error",
                            IF commits THEN "resolved" ELSE "rejected", <<>>)
    /\ UNCHANGED <<events, sortedEvents, idbFiles>>
    /\ KeepApp

\* What loadCases resolves with when the read of 'cases_list' succeeds.
loadCasesResult(data) ==
    IF data = None THEN <<>>
    ELSE LET jsonString == decompressFromUTF16(data[1])
         IN  IF ~jsonString.present THEN <<>> ELSE loadCases(jsonString)

\* loadCases(): [] when the read request errors.
storageService_loadCases(succeeds) ==
    /\ returned' = Returned("loadCases", NoDoc, <<>>, IF succeeds THEN "success" ELSE "error",
                            "resolved", IF succeeds THEN loadCasesResult(idbData) ELSE <<>>)
    /\ UNCHANGED <<events, sortedEvents, idbData, idbFiles>>
    /\ KeepApp

\* Mutant of storageService_saveFile: every file is put under the same key.
storageService_saveFileOneKey(id, file, commits) ==
    /\ idbFiles' = IF commits THEN [ idbFiles EXCEPT ![1] = Some(file) ] ELSE idbFiles
    /\ returned' = Returned("saveFile", id, Some(file), IF commits THEN "success" ELSE "error",
                            IF commits THEN "resolved" ELSE "rejected", <<>>)
    /\ UNCHANGED <<events, sortedEvents, idbData>>
    /\ KeepApp

\* saveFile(id, file): put(file, id); rejects when the transaction fails.
storageService_saveFile(id, file, commits) ==
    /\ idbFiles' = IF commits THEN [ idbFiles EXCEPT ![id] = Some(file) ] ELSE idbFiles
    /\ returned' = Returned("saveFile", id, Some(file), IF commits THEN "success" ELSE "error",
                            IF commits THEN "resolved" ELSE "rejected", <<>>)
    /\ UNCHANGED <<events, sortedEvents, idbData>>
    /\ KeepApp

\* getFile(id): request.result || null, and null when the read request errors.
storageService_getFile(id, succeeds) ==
    /\ returned' = Returned("getFile", id, None, IF succeeds THEN "success" ELSE "error",
                            "resolved", IF succeeds THEN idbFiles[id] ELSE None)
    /\ UNCHANGED <<events, sortedEvents, idbData, idbFiles>>
    /\ KeepApp

\* deleteFile(id): delete(id); the call does not wait for the transaction.
storageService_deleteFile(id) ==
    /\ idbFiles' = [ idbFiles EXCEPT ![id] = None ]
    /\ returned' = Returned("deleteFile", id, None, "success", "resolved", <<>>)
    /\ UNCHANGED <<events, sortedEvents, idbData>>
    /\ KeepApp

NextStorage ==
    \/ \E cs \in SnapshotInputs, commits \in BOOLEAN : storageService_saveCases(cs, commits)
    \/ \E succeeds \in BOOLEAN : storageService_loadCases(succeeds)
    \/ \E id \in DocIds, file \in StoreFiles, commits \in BOOLEAN :
          storageService_saveFile(id, file, commits)
    \/ \E id \in DocIds, succeeds \in BOOLEAN : storageService_getFile(id, succeeds)
    \/ \E id \in DocIds : storageService_deleteFile(id)

SpecStorage == InitStorage /\ [][NextStorage]_vars

(***************************************************************************)
(* The case-based build with two cases created in the session              *)
(***************************************************************************)
\* Nothing is stored, so the first case created gets the first id.
InitTwoCases ==
    InitWith({NullStorage}, StoredCaseId) /\ build = "cases" /\ rendering = FALSE

NextCases ==
    \/ MountCases
    \/ CasesEffects
    \/ \E name \in CaseNames \cup {""} : handleCreateCase(name)
    \/ \E id \in CaseIdSet : SelectCase(id)
    \/ AllCases
    \/ \E files \in Batches : handleFilesSelected(files)
    \/ \E id \in CaseIdSet : handleDeleteCase(id)
    \/ \E c \in calls, resp \in ProseResponses : ProseReturned(c, resp)
    \/ \E c \in calls, resp \in ProseResponses : ProseFailed(c, resp)
    \/ \E c \in calls, resp \in EntityResponses : EntitiesReturned(c, resp)
    \/ \E c \in calls, resp \in EntityResponses : EntitiesFailed(c, resp)

SpecCases == InitTwoCases /\ [][NextCases]_vars

(***************************************************************************)
(* The same program under every kind of output the model capability can    *)
(* give: an empty stage-1 text, and stage-2 lists with entries that have   *)
(* no facts, lack a required field or carry an unknown category.           *)
(***************************************************************************)
EntityCategory ==
    { "Diagnosis", "Treatment", "Symptom", "Lab Result", "Medication",
      "Administrative", "Other" }

EmptyProse == [kind |-> "text", text |-> ""]

ProseOutputs == ProseResponses \cup { EmptyProse }

\* A second well-formed entry, an entry without facts, an entry without the
\* required `summary`, and an entry whose fact has a category outside the enum.
Entry2 == [ date |-> "2024-01-01", summary |-> "Admission",
            facts |-> << [ category |-> "Treatment", detail |-> "Admitted",
                           pageNumber |-> None, quote |-> None ] >> ]
EntryNoFacts == [ date |-> "2024-01-03", summary |-> "Nothing", facts |-> <<>> ]
EntryNoSummary == [ date |-> "2024-01-04", facts |-> <<Fact1>> ]
EntryBadCategory ==
    [ date |-> "2024-01-05", summary |-> "Imaging",
      facts |-> << [ category |-> "Imaging", detail |-> "X-ray",
                     pageNumber |-> None, quote |-> None ] >> ]

EntityOutputs ==
    EntityResponses \cup
    { [kind |-> "empty", json |-> FALSE, value |-> <<>>],
      [kind |-> "text",  json |-> TRUE,  value |-> <<Entry2, EntryNoFacts>>],
      [kind |-> "text",  json |-> TRUE,  value |-> <<EntryNoSummary, Entry1>>],
      [kind |-> "text",  json |-> TRUE,  value |-> <<EntryBadCategory>>] }

NextOutputs ==
    \/ MountCases
    \/ MountDocuments
    \/ CasesEffects
    \/ DocumentsEffects
    \/ \E name \in CaseNames \cup {""} : handleCreateCase(name)
    \/ \E id \in CaseIdSet : SelectCase(id)
    \/ AllCases
    \/ \E files \in Batches : handleFilesSelected(files)
    \/ \E id \in CaseIdSet : handleDeleteCase(id)
    \/ \E files \in Batches : handleFilesSelectedDocuments(files)
    \/ \E docId \in DocIds : handleDeleteDocument(docId)
    \/ handleResetCase
    \/ \E c \in calls, resp \in ProseOutputs : ProseReturned(c, resp)
    \/ \E c \in calls, resp \in ProseOutputs : ProseFailed(c, resp)
    \/ \E c \in calls, resp \in EntityOutputs : EntitiesReturned(c, resp)
    \/ \E c \in calls, resp \in EntityOutputs : EntitiesFailed(c, resp)

SpecOutputs == Init /\ [][NextOutputs]_vars

(***************************************************************************)
(* The program with its rendered view: document selection and export       *)
(***************************************************************************)
\* A document of the list on screen is clicked:
\* setSelectedDocId(doc.id === selectedDocId ? null : doc.id)
handleDocClick(docId) ==
    /\ rendering /\ Ready
    /\ LET docs == Shown(cases, activeCaseId, documents)
       IN  /\ docs # None
           /\ findDocument(docs[1], docId) # None
           /\ Render(docs, FALSE, IF docId = selectedDocId THEN NoDoc ELSE docId, isExporting, None)
    /\ UNCHANGED <<build, phase, cases, activeCaseId, documents, storage, effectPending,
                   calls, nextDocId, nextCaseId, started, modelLog, lastUpdate>>

\* handleExport up to its await: the events to export are handed to
\* exportChronologyToDocx and isExporting is set.  The button is disabled
\* while an export runs; part_002 disables it, and part_001 returns, when
\* the case-wide projection is empty; part_002 returns when there is
\* nothing to export.
handleExport ==
    /\ rendering /\ Ready
    /\ ~isExporting
    /\ activeCaseEvents # <<>>
    /\ LET docs == Shown(cases, activeCaseId, documents)
           selectedDoc == IF docs = None THEN None ELSE findDocument(docs[1], selectedDocId)
           eventsToExport ==
               IF selectedDoc # None /\ selectedDoc[1].entities # None
               THEN documentEvents(selectedDoc[1],
                                   uuidv4(UsedUuids, Len(selectedDoc[1].entities[1])))
               ELSE activeCaseEvents
       IN  /\ docs # None
           /\ build = "cases" => eventsToExport # <<>>
           /\ Render(docs, FALSE, selectedDocId, TRUE, Some(eventsToExport))
    /\ UNCHANGED <<build, phase, cases, activeCaseId, documents, storage, effectPending,
                   calls, nextDocId, nextCaseId, started, modelLog, lastUpdate>>

\* handleExport after its await: finally { setIsExporting(false) }
exportFinished ==
    /\ rendering /\ Ready
    /\ isExporting
    /\ Render(Shown(cases, activeCaseId, documents), FALSE, selectedDocId, FALSE, None)
    /\ UNCHANGED <<build, phase, cases, activeCaseId, documents, storage, effectPending,
                   calls, nextDocId, nextCaseId, started, modelLog, lastUpdate>>

\* Stage-2 responses: a rejected call and a list of two entries.
ViewEntityResponses ==
    { [kind |-> "api_error", json |-> FALSE, value |-> <<>>],
      [kind |-> "text",      json |-> TRUE,  value |-> <<Entry2, Entry1>>] }

InitView == InitPipeline /\ rendering = TRUE /\ storage = NullStorage

\* The program with its case-wide projection rendered; no document is ever
\* selected and nothing is exported.
NextTimeline ==
    \/ MountCases
    \/ MountDocuments
    \/ CasesEffects
    \/ DocumentsEffects
    \/ \E name \in CaseNames \cup {""} : handleCreateCase(name)
    \/ \E id \in CaseIdSet : SelectCase(id)
    \/ AllCases
    \/ \E files \in Batches : handleFilesSelected(files)
    \/ \E id \in CaseIdSet : handleDeleteCase(id)
    \/ \E files \in Batches : handleFilesSelectedDocuments(files)
    \/ \E docId \in DocIds : handleDeleteDocument(docId)
    \/ handleResetCase
    \/ \E c \in calls, resp \in ProseResponses : ProseReturned(c, resp)
    \/ \E c \in calls, resp \in ProseResponses : ProseFailed(c, resp)
    \/ \E c \in calls, resp \in ViewEntityResponses : EntitiesReturned(c, resp)
    \/ \E c \in calls, resp \in ViewEntityResponses : EntitiesFailed(c, resp)

SpecTimeline == InitView /\ [][NextTimeline]_vars

\* A stage-2 call that succeeds with an empty response text.
EmptyEntityText == [kind |-> "empty", json |-> FALSE, value |-> <<>>]

TimelineEntityResponses == ViewEntityResponses \cup { EmptyEntityText }

\* The same where stage 2 may also answer with an empty text.
NextEmptyText ==
    \/ MountCases
    \/ MountDocuments
    \/ CasesEffects
    \/ DocumentsEffects
    \/ \E name \in CaseNames \cup {""} : handleCreateCase(name)
    \/ \E id \in CaseIdSet : SelectCase(id)
    \/ AllCases
    \/ \E files \in Batches : handleFilesSelected(files)
    \/ \E id \in CaseIdSet : handleDeleteCase(id)
    \/ \E files \in Batches : handleFilesSelectedDocuments(files)
    \/ \E docId \in DocIds : handleDeleteDocument(docId)
    \/ handleResetCase
    \/ \E c \in calls, resp \in ProseResponses : ProseReturned(c, resp)
    \/ \E c \in calls, resp \in ProseResponses : ProseFailed(c, resp)
    \/ \E c \in calls, resp \in TimelineEntityResponses : EntitiesReturned(c, resp)
    \/ \E c \in calls, resp \in TimelineEntityResponses : EntitiesFailed(c, resp)

SpecEmptyText == InitView /\ [][NextEmptyText]_vars

\* The same with document selection and export.
NextView ==
    \/ MountCases
    \/ MountDocuments
    \/ CasesEffects
    \/ DocumentsEffects
    \/ \E name \in CaseNames \cup {""} : handleCreateCase(name)
    \/ \E id \in CaseIdSet : SelectCase(id)
    \/ AllCases
    \/ \E files \in Batches : handleFilesSelected(files)
    \/ \E id \in CaseIdSet : handleDeleteCase(id)
    \/ \E files \in Batches : handleFilesSelectedDocuments(files)
    \/ \E docId \in DocIds : handleDeleteDocument(docId)
    \/ handleResetCase
    \/ \E c \in calls, resp \in ProseResponses : ProseReturned(c, resp)
    \/ \E c \in calls, resp \in ProseResponses : ProseFailed(c, resp)
    \/ \E c \in calls, resp \in ViewEntityResponses : EntitiesReturned(c, resp)
    \/ \E c \in calls, resp \in ViewEntityResponses : EntitiesFailed(c, resp)
    \/ \E docId \in DocIds : handleDocClick(docId)
    \/ handleExport
    \/ exportFinished

SpecView == InitView /\ [][NextView]_vars

(***************************************************************************)
(* The source viewer                                                       *)
(***************************************************************************)
\* URL.createObjectURL(file): a URL no live URL equals; `docId` is the
\* document whose binary handle the URL gives access to.
createObjectURL(live, docId) ==
    [ file |-> docId,
      n |-> Min({ k \in 1..(MaxUrls + 1) : \A u \in live : u.n # k }) ]

\* if (viewingDocUrl) URL.revokeObjectURL(viewingDocUrl).  The cleanup of
\* part_001's effect on viewingDocUrl revokes the replaced URL once more,
\* which changes nothing.
revokeObjectURL(live, url) == IF url = None THEN live ELSE live \ {url[1]}

\* The branch of the click handlers that opens the viewer on sourceDoc.
OpenViewer(sourceDoc, item) ==
    LET live == revokeObjectURL(liveUrls, viewingDocUrl)
        url == createObjectURL(live, sourceDoc.id)
    IN  /\ Cardinality(live) < MaxUrls
        /\ liveUrls' = live \cup {url}
        /\ viewingDocUrl' = Some(url)
        /\ viewingItem' = Some(item)

\* part_002 handleFactClick(fact, parentEvent): fact j of event k of the
\* timeline on screen is clicked.
handleFactClick(k, j) ==
    /\ build = "cases" /\ rendering /\ Ready
    /\ k \in 1..Len(events) /\ j \in 1..Len(events[k].facts)
    /\ LET activeCase == findCase(cases, activeCaseId)
           parentEvent == events[k]
           fact == parentEvent.facts[j]
           sourceDoc == IF activeCase = None THEN None
                        ELSE findDocument(activeCase[1].documents,
                                          parentEvent.sourceDocumentId)
       IN  IF activeCase # None /\ sourceDoc # None /\ sourceDoc[1].rawFile # None
           THEN /\ OpenViewer(sourceDoc[1],
                     [ date |-> parentEvent.date, summary |-> fact.detail,
                       category |-> fact.category,
                       sourceDocumentId |-> parentEvent.sourceDocumentId,
                       sourceDocumentName |-> parentEvent.sourceDocumentName,
                       pageNumber |-> fact.pageNumber, quote |-> fact.quote ])
                /\ RenderProjection(Shown(cases, activeCaseId, documents), FALSE,
                                    selectedDocId, isExporting, None)
           ELSE NoRender
    /\ UNCHANGED <<build, phase, cases, activeCaseId, documents, storage, effectPending,
                   calls, nextDocId, nextCaseId, started, modelLog, lastUpdate>>

\* part_002, the close button of the viewer panel:
\* setViewingItem(null); setViewingDocUrl(null)
closeViewerPanel ==
    /\ build = "cases" /\ rendering /\ Ready
    /\ findCase(cases, activeCaseId) # None
    /\ viewingItem # None /\ viewingDocUrl # None
    /\ viewingItem' = None
    /\ viewingDocUrl' = None
    /\ UNCHANGED liveUrls
    /\ RenderProjection(Shown(cases, activeCaseId, documents), FALSE,
                        selectedDocId, isExporting, None)
    /\ UNCHANGED <<build, phase, cases, activeCaseId, documents, storage, effectPending,
                   calls, nextDocId, nextCaseId, started, modelLog, lastUpdate>>

\* part_001 handleEventClick(event): event k of the timeline on screen is clicked.
handleEventClick(k) ==
    /\ build = "documents" /\ rendering /\ Ready
    /\ k \in 1..Len(events)
    /\ LET event == events[k]
           sourceDoc == findDocument(documents, event.sourceDocumentId)
       IN  IF sourceDoc # None /\ sourceDoc[1].rawFile # None
           THEN /\ OpenViewer(sourceDoc[1], event)
                /\ RenderProjection(Some(documents), FALSE, selectedDocId, isExporting, None)
           ELSE NoRender
    /\ UNCHANGED <<build, phase, cases, activeCaseId, documents, storage, effectPending,
                   calls, nextDocId, nextCaseId, started, modelLog, lastUpdate>>

\* part_001 closeViewer (the close button of the viewer panel)
closeViewer ==
    /\ build = "documents" /\ rendering /\ Ready
    /\ viewingItem # None /\ viewingDocUrl # None
    /\ viewingItem' = None
    /\ liveUrls' = revokeObjectURL(liveUrls, viewingDocUrl)
    /\ viewingDocUrl' = None
    /\ RenderProjection(Some(documents), FALSE, selectedDocId, isExporting, None)
    /\ UNCHANGED <<build, phase, cases, activeCaseId, documents, storage, effectPending,
                   calls, nextDocId, nextCaseId, started, modelLog, lastUpdate>>

\* What a previous session may have left: a case whose document completed.
\* Its binary handle is lost with the session.
ViewerStoredCases ==
    << [ id |-> StoredCaseId, name |-> "Smith",
         documents |->
           << [ StoredDoc(1, COMPLETED) EXCEPT
                  !.proseDescription = Some("[Page 1] Seen on 2024-01-02."),
                  !.entities = Some(<<Entry2, Entry1>>) ] >> ] >>

InitViewer ==
    InitFrom({ NullStorage, Serialize(ViewerStoredCases) }) /\ rendering = TRUE

\* The program with its timeline and the source viewer.
NextViewer ==
    \/ MountCases
    \/ MountDocuments
    \/ CasesEffects
    \/ DocumentsEffects
    \/ \E name \in CaseNames \cup {""} : handleCreateCase(name)
    \/ \E id \in CaseIdSet : SelectCase(id)
    \/ AllCases
    \/ \E files \in Batches : handleFilesSelected(files)
    \/ \E id \in CaseIdSet : handleDeleteCase(id)
    \/ \E files \in Batches : handleFilesSelectedDocuments(files)
    \/ \E docId \in DocIds : handleDeleteDocument(docId)
    \/ handleResetCase
    \/ \E c \in calls, resp \in ProseResponses : ProseReturned(c, resp)
    \/ \E c \in calls, resp \in ProseResponses : ProseFailed(c, resp)
    \/ \E c \in calls, resp \in ViewEntityResponses : EntitiesReturned(c, resp)
    \/ \E c \in calls, resp \in ViewEntityResponses : EntitiesFailed(c, resp)
    \/ \E k \in 1..Len(events) : \E j \in 1..Len(events[k].facts) : handleFactClick(k, j)
    \/ closeViewerPanel
    \/ \E k \in 1..Len(events) : handleEventClick(k)
    \/ closeViewer

SpecViewer == InitViewer /\ [][NextViewer]_vars


(***************************************************************************)
(* Properties                                                              *)
(***************************************************************************)
Terminal == {COMPLETED, ERROR}

HasHandle(d) == d.rawFile # None

\* The positions of the documents of a list that are in stage 1 or stage 2.
InStage(docs) ==
    { j \in 1..Len(docs) : docs[j].status \in {GENERATING_PROSE, EXTRACTING_ENTITIES} }

\* The case the scheduler works on: the active case, or the single list.
Scheduled(caseId) == IF build = "cases" THEN caseId = activeCaseId ELSE TRUE

StatusEdges ==
    { <<QUEUED, GENERATING_PROSE>>, <<GENERATING_PROSE, EXTRACTING_ENTITIES>>,
      <<EXTRACTING_ENTITIES, COMPLETED>>, <<GENERATING_PROSE, ERROR>>,
      <<EXTRACTING_ENTITIES, ERROR>> }

\* C1: in every step, the status of a document that exists before and after
\* the step either stays the same or changes along one of the five edges
\* QUEUED->GENERATING_PROSE, GENERATING_PROSE->EXTRACTING_ENTITIES,
\* EXTRACTING_ENTITIES->COMPLETED, GENERATING_PROSE->ERROR,
\* EXTRACTING_ENTITIES->ERROR.
C1_StatusTransitions ==
    [][ \A p \in AllDocs : \A q \in AllDocs' :
          p[2].id = q[2].id =>
             \/ q[2].status = p[2].status
             \/ <<p[2].status, q[2].status>> \in StatusEdges ]_vars

\* C1 witness: one document went all the way to COMPLETED and another one
\* reached ERROR from EXTRACTING_ENTITIES.
C1_Witness ==
    \E d, e \in DocIds :
       /\ Present(d) /\ Doc(d).status = COMPLETED
       /\ Present(e) /\ Doc(e).status = ERROR
       /\ modelLog[e] = <<"prose:start", "prose:ok", "entities:start", "entities:fail">>

\* C2: in every reachable state, every case (and the single document list)
\* has at most CONCURRENCY_LIMIT documents in GENERATING_PROSE or
\* EXTRACTING_ENTITIES.
C2_ConcurrencyCap ==
    \A caseId \in CaseIds : Cardinality(InStage(DocsOf(caseId))) <= 2

\* C2 witness: a case with CONCURRENCY_LIMIT documents in processing, one in
\* each stage, while a further document with a handle waits in QUEUED and the
\* scheduler has been evaluated.
C2_Witness ==
    /\ Ready
    /\ \E caseId \in CaseIds :
         LET ds == DocsOf(caseId)
         IN  /\ Scheduled(caseId)
             /\ Cardinality(InStage(ds)) = 2
             /\ \E i, j, k \in 1..Len(ds) :
                   /\ ds[i].status = GENERATING_PROSE
                   /\ ds[j].status = EXTRACTING_ENTITIES
                   /\ ds[k].status = QUEUED /\ HasHandle(ds[k])

\* C3: if D is listed before D' in the same case and both are QUEUED with a
\* binary handle, then no step admits D' (D' is still QUEUED after the step,
\* if it still exists): D' is never admitted while D is QUEUED.
C3_FifoAdmission ==
    [][ \A caseId \in CaseIds :
          LET ds == DocsOf(caseId)
          IN  \A i, j \in 1..Len(ds) : \A d \in DocIds :
                 ( /\ i < j
                   /\ ds[i].status = QUEUED /\ HasHandle(ds[i])
                   /\ ds[j].status = QUEUED /\ HasHandle(ds[j])
                   /\ d = ds[j].id )
                 => /\ started'[d] = started[d]
                    /\ Present(d)' => Doc(d)'.status = QUEUED ]_vars

\* C3 witness: of three documents with handles uploaded to a case, the
\* scheduler admitted the first two, in list order, and the last one is
\* still QUEUED, and after the first one finished the third was admitted.
C3_Witness ==
    \E caseId \in CaseIds :
       LET ds == DocsOf(caseId)
       IN  /\ Len(ds) = 3
           /\ \A i \in 1..3 : HasHandle(ds[i])
           /\ ds[1].status \in Terminal
           /\ ds[2].status = GENERATING_PROSE
           /\ ds[3].status = GENERATING_PROSE

\* C4: a step in which a pipeline invocation whose document no longer exists
\* applies a stage-completion or failure update leaves the collection
\* unchanged, and a document id that was removed is in no case afterwards.
C4_DeletedDocNoOp ==
    [][ /\ \A c \in calls :
             ( <<c.caseId, c.docId>> \notin DocKeys /\ c \notin calls' )
             => ( cases' = cases /\ documents' = documents )
        /\ \A d \in DocIds :
             ( phase = "ready" /\ d < nextDocId /\ d \notin PresentIds )
             => d \notin PresentIds' ]_vars

\* C4 witness: the last update issued for a document did not find it, and
\* its pipeline has run to the end of stage 2.
C4_Witness ==
    \E d \in DocIds :
       /\ ~Present(d)
       /\ ~lastUpdate[d].found
       /\ lastUpdate[d].update.status = COMPLETED
       /\ CallsOf(d) = {}

\* C5: for a case whose first three documents were uploaded with handles:
\* the third is out of QUEUED only if one of the first two is COMPLETED or
\* ERROR; and once the scheduler has been evaluated on the case, the first
\* two are out of QUEUED, and the third is QUEUED exactly when neither of
\* the first two is COMPLETED or ERROR.
C5_ThreeUploads ==
    \A caseId \in CaseIds :
       LET ds == DocsOf(caseId)
       IN  ( Len(ds) >= 3 /\ \A i \in 1..3 : HasHandle(ds[i]) ) =>
             /\ ds[3].status # QUEUED
                  => ( ds[1].status \in Terminal \/ ds[2].status \in Terminal )
             /\ ( Ready /\ Scheduled(caseId) ) =>
                  /\ ds[1].status # QUEUED
                  /\ ds[2].status # QUEUED
                  /\ ds[3].status = QUEUED
                       <=> ( ds[1].status \notin Terminal /\ ds[2].status \notin Terminal )

\* C5 witness: three uploaded documents; the second one failed, the first is
\* still in stage 1 and the third has been admitted into GENERATING_PROSE.
C5_Witness ==
    /\ Ready
    /\ \E caseId \in CaseIds :
         LET ds == DocsOf(caseId)
         IN  /\ Scheduled(caseId)
             /\ Len(ds) = 3
             /\ \A i \in 1..3 : HasHandle(ds[i])
             /\ ds[1].status = GENERATING_PROSE
             /\ ds[2].status = ERROR
             /\ ds[3].status = GENERATING_PROSE

ModelLogs ==
    { <<>>,
      <<"prose:start">>,
      <<"prose:start", "prose:fail">>,
      <<"prose:start", "prose:ok", "entities:start">>,
      <<"prose:start", "prose:ok", "entities:start", "entities:ok">>,
      <<"prose:start", "prose:ok", "entities:start", "entities:fail">> }

\* C6: for every document, the model calls made for it are, in order, one
\* stage-1 call, and then one stage-2 call only if that stage-1 call
\* returned; at most one call is in flight per document, and it is the call
\* the log says is open.
C6_StageOrder ==
    \A d \in DocIds :
       /\ modelLog[d] \in ModelLogs
       /\ Cardinality(CallsOf(d)) <= 1
       /\ \A c \in CallsOf(d) :
             /\ c.stage = "prose" => modelLog[d] = <<"prose:start">>
             /\ c.stage = "entities" =>
                  modelLog[d] = <<"prose:start", "prose:ok", "entities:start">>

\* C6 witness: one document whose stage 1 failed, one whose stage 2 is in
\* flight after stage 1 returned.
C6_Witness ==
    \E d, e \in DocIds :
       /\ modelLog[d] = <<"prose:start", "prose:fail">>
       /\ \E c \in CallsOf(e) : c.stage = "entities"

\* C7: a document that is COMPLETED or ERROR is not changed by any step (it
\* can only disappear), and processDocument is not invoked for it again.
C7_TerminalStatuses ==
    [][ \A p \in AllDocs :
          p[2].status \in Terminal =>
             /\ started'[p[2].id] = started[p[2].id]
             /\ \A q \in AllDocs' : q[2].id = p[2].id => q[2] = p[2] ]_vars

\* C7 witness: the scheduler has been evaluated on a case with free capacity
\* that holds an ERROR document with a handle and a COMPLETED document.
C7_Witness ==
    /\ Ready
    /\ \E caseId \in CaseIds :
         LET ds == DocsOf(caseId)
         IN  /\ Scheduled(caseId)
             /\ InStage(ds) = {}
             /\ \E i, j \in 1..Len(ds) :
                   /\ ds[i].status = ERROR /\ HasHandle(ds[i])
                   /\ ds[j].status = COMPLETED

\* The ids of a document list, in list order.
IdList(docs) == [ j \in 1..Len(docs) |-> docs[j].id ]

\* C8: a step that takes document D to ERROR changes, of D, the status and
\* the error message only (the message is not empty); every other document
\* keeps its place and all its fields, and every call in flight for another
\* document stays in flight unchanged.
C8_FailureIsLocal ==
    [][ \A p \in AllDocs : \A q \in AllDocs' :
          ( p[2].id = q[2].id /\ p[2].status # ERROR /\ q[2].status = ERROR ) =>
             /\ \E msg \in {"Processing failed.", "Processing failed. Please try again."} :
                   q[2] = [ p[2] EXCEPT !.status = ERROR, !.error = Some(msg) ]
             /\ \A caseId \in CaseIds :
                   /\ caseId \in CaseIds'
                   /\ IdList(DocsOf(caseId)') = IdList(DocsOf(caseId))
             /\ \A e \in AllDocs : e[2].id # p[2].id => e \in AllDocs'
             /\ \A c \in calls : c.docId # p[2].id => c \in calls' ]_vars

\* C8 witness: a document failed in stage 1 while a sibling of the same case
\* is in EXTRACTING_ENTITIES with its stage-2 call in flight.
C8_Witness ==
    \E d, e \in DocIds :
       /\ Present(d) /\ Present(e) /\ CaseOf(d) = CaseOf(e)
       /\ Doc(d).status = ERROR
       /\ modelLog[d] = <<"prose:start", "prose:fail">>
       /\ Doc(e).status = EXTRACTING_ENTITIES
       /\ \E c \in CallsOf(e) : c.stage = "entities"

\* The collection of the running build and its updaters, as functions of the
\* previous value.
Collection == IF build = "cases" THEN cases ELSE documents

applyUpdate(prev, c, u) ==
    IF build = "cases" THEN updateDoc(prev, c.caseId, c.docId, u)
    ELSE setDocumentById(prev, c.docId, u)

applyUpload(prev, caseId, docs) ==
    IF build = "cases" THEN addDocsToCase(prev, caseId, docs) ELSE prev \o docs

applyDelete(prev, c) ==
    IF build = "cases" THEN removeCase(prev, c.caseId) ELSE removeDocument(prev, c.docId)

\* The updates a pipeline invocation may issue next.
NextUpdates(c) ==
    IF c.stage = "prose"
    THEN { Update(EXTRACTING_ENTITIES, Some("[Page 1] Seen on 2024-01-02."), None, None),
           Update(ERROR, None, None, Some(ErrorMessage)) }
    ELSE { Update(COMPLETED, None, Some(<<Entry1>>), None),
           Update(ERROR, None, None, Some(ErrorMessage)) }

\* C9: in every reachable state, every existing document for which an update
\* was issued carries the status and the data of the latest update issued for
\* it; and the updates that can be applied next commute: the updates of two
\* invocations for different documents, and an update with an upload or with
\* the deletion of another document (case), give the same collection in
\* either order.
C9_NoLostUpdates ==
    LET coll == Collection
    IN  /\ \A p \in AllDocs :
              LET doc == p[2]
                  u == lastUpdate[doc.id].update
              IN  lastUpdate[doc.id] # NoUpdate =>
                     /\ doc.status = u.status
                     /\ u.proseDescription # None => doc.proseDescription = u.proseDescription
                     /\ u.entities # None => doc.entities = u.entities
                     /\ u.error # None => doc.error = u.error
        /\ \A c1, c2 \in calls :
              c1.docId # c2.docId =>
                 \A u1 \in NextUpdates(c1) :
                    LET after1 == applyUpdate(coll, c1, u1)
                    IN  /\ applyUpdate(applyDelete(coll, c2), c1, u1) = applyDelete(after1, c2)
                        /\ c1.docId < c2.docId =>
                              \A u2 \in NextUpdates(c2) :
                                 applyUpdate(after1, c2, u2)
                                   = applyUpdate(applyUpdate(coll, c2, u2), c1, u1)
        /\ \A c \in calls : \A u \in NextUpdates(c) : \A f \in Files :
              LET docs == <<ProcessedDocument(nextDocId, f)>>
              IN  applyUpdate(applyUpload(coll, c.caseId, docs), c, u)
                    = applyUpload(applyUpdate(coll, c, u), c.caseId, docs)

\* C9 witness: two documents of a case were admitted in list order and the
\* later one completed first, while a third one was uploaded.
C9_Witness ==
    \E caseId \in CaseIds :
       LET ds == DocsOf(caseId)
       IN  /\ Len(ds) = 3
           /\ ds[1].status = EXTRACTING_ENTITIES /\ lastUpdate[ds[1].id].found
           /\ ds[2].status = COMPLETED /\ ds[2].entities = Some(<<Entry1>>)
           /\ ds[3].status = QUEUED

\* C10: a QUEUED document without a binary handle is not changed by any step
\* (it can only disappear), and processDocument is never invoked for it.
C10_NoHandleNotAdmitted ==
    [][ \A p \in AllDocs :
          ( p[2].status = QUEUED /\ ~HasHandle(p[2]) ) =>
             /\ started'[p[2].id] = 0
             /\ \A q \in AllDocs' : q[2].id = p[2].id => q[2] = p[2] ]_vars

\* C10 witness: the scheduler has been evaluated on the active case, which
\* has free capacity and whose first QUEUED document has no handle, while a
\* document uploaded after it waits with a handle.
C10_Witness ==
    /\ Ready
    /\ \E caseId \in CaseIds :
         LET ds == DocsOf(caseId)
         IN  /\ Scheduled(caseId)
             /\ Cardinality(InStage(ds)) < 2
             /\ Len(ds) >= 3
             /\ ds[2].status = QUEUED /\ ~HasHandle(ds[2])
             /\ started[ds[2].id] = 0
             /\ ds[3].status = QUEUED /\ HasHandle(ds[3])

\* C11: a step in which a stage-1 call ends on an empty output leaves the
\* document, if it still exists, in ERROR (it does not enter
\* EXTRACTING_ENTITIES).
C11_EmptyProseFails ==
    [][ \A c \in calls :
          ( ProseReturned(c, EmptyProse) \/ ProseFailed(c, EmptyProse) ) =>
             \A q \in AllDocs' : q[2].id = c.docId => q[2].status = ERROR ]_vars

\* C12: a document that enters ERROR from GENERATING_PROSE has no prose; one
\* that enters ERROR from EXTRACTING_ENTITIES keeps the prose it held, which
\* is the prose its stage-1 call returned; and the prose of an ERROR
\* document never changes afterwards.
C12_ProseOnError ==
    [][ \A p \in AllDocs : \A q \in AllDocs' :
          ( p[2].id = q[2].id /\ q[2].status = ERROR ) =>
             /\ p[2].status = GENERATING_PROSE => q[2].proseDescription = None
             /\ p[2].status = EXTRACTING_ENTITIES =>
                   /\ q[2].proseDescription = p[2].proseDescription
                   /\ \E c \in CallsOf(p[2].id) :
                         c.stage = "entities" /\ q[2].proseDescription = Some(c.prose)
             /\ p[2].status = ERROR => q[2].proseDescription = p[2].proseDescription ]_vars

\* C12 witness: one document failed in stage 1 and holds no prose, another
\* one failed in stage 2 and holds the prose of stage 1.
C12_Witness ==
    \E p, q \in AllDocs :
       /\ p[2].status = ERROR /\ modelLog[p[2].id] = <<"prose:start", "prose:fail">>
       /\ p[2].proseDescription = None
       /\ q[2].status = ERROR
       /\ modelLog[q[2].id] = <<"prose:start", "prose:ok", "entities:start", "entities:fail">>
       /\ q[2].proseDescription = Some("[Page 1] Seen on 2024-01-02.")

\* C13: the error message of a document that failed in stage 2 differs from
\* the error message of a document that failed in stage 1.
C13_StageSpecificMessage ==
    \A p, q \in AllDocs :
       ( /\ p[2].status = ERROR /\ q[2].status = ERROR
         /\ modelLog[p[2].id] = <<"prose:start", "prose:fail">>
         /\ modelLog[q[2].id] = <<"prose:start", "prose:ok", "entities:start", "entities:fail">> )
       => p[2].error # q[2].error

\* The entry lists stored in the documents of the running build.
StoredEntryLists == { p[2].entities[1] : p \in { x \in AllDocs : x[2].entities # None } }

\* C14: no entry stored in a COMPLETED document has an empty list of facts.
C14_NoEmptyEntries ==
    \A p \in AllDocs :
       ( p[2].status = COMPLETED /\ p[2].entities # None ) =>
          \A k \in 1..Len(p[2].entities[1]) : p[2].entities[1][k].facts # <<>>

\* An entry with the required fields: date, summary and at least one fact,
\* every fact with a category and a detail.
WellFormed(e) ==
    /\ {"date", "summary", "facts"} \subseteq DOMAIN e
    /\ Len(e.facts) >= 1
    /\ \A k \in 1..Len(e.facts) : {"category", "detail"} \subseteq DOMAIN e.facts[k]

\* C15: a step in which a stage-2 call ends on a list with at least one
\* well-formed and at least one malformed entry leaves the document, if it
\* still exists, COMPLETED with exactly the well-formed entries, in order.
C15_MalformedEntriesDropped ==
    [][ \A c \in calls : \A resp \in EntityOutputs :
          ( /\ resp.kind = "text" /\ resp.json
            /\ \E k \in 1..Len(resp.value) : WellFormed(resp.value[k])
            /\ \E k \in 1..Len(resp.value) : ~WellFormed(resp.value[k])
            /\ ( EntitiesReturned(c, resp) \/ EntitiesFailed(c, resp) ) ) =>
             \A q \in AllDocs' :
                q[2].id = c.docId =>
                   /\ q[2].status = COMPLETED
                   /\ q[2].entities = Some(SelectSeq(resp.value, WellFormed)) ]_vars

\* C16: every fact of every stored entry list has a category of the
\* EntityCategory enumeration.
C16_CategoriesClosed ==
    \A es \in StoredEntryLists :
       \A k \in 1..Len(es) :
          \A j \in 1..Len(es[k].facts) : es[k].facts[j].category \in EntityCategory

\* The document list on screen (empty when no case is shown).
DocsOnScreen ==
    LET docs == Shown(cases, activeCaseId, documents)
    IN  IF docs = None THEN <<>> ELSE docs[1]

\* A timeline event without its three stamps: the entry it was made from.
EntryOf(ev) ==
    [ f \in DOMAIN ev \ {"sourceDocumentId", "sourceDocumentName", "id"} |-> ev[f] ]

\* The entries of the events of es that are stamped with document id.
EntriesFrom(es, id) ==
    LET sub == SelectSeq(es, LAMBDA ev : ev.sourceDocumentId = id)
    IN  [ k \in 1..Len(sub) |-> EntryOf(sub[k]) ]

\* The entries a document contributes to the case-wide projection.
Contribution(d) ==
    IF d.status = COMPLETED /\ d.entities # None THEN d.entities[1] ELSE <<>>

\* C17: after every render the case-wide projection holds, for each document
\* on screen, exactly the entries of that document if it is COMPLETED and
\* nothing otherwise, each event stamped with the id and the name of its
\* document, in the order of the document list (whatever the order in which
\* the documents completed), with pairwise different event ids.
C17_ProjectionOfCompleted ==
    rendering =>
       LET docs == DocsOnScreen
           es == activeCaseEvents
       IN  /\ \A j \in 1..Len(docs) : EntriesFrom(es, docs[j].id) = Contribution(docs[j])
           /\ \A n \in 1..Len(es) :
                 \E j \in 1..Len(docs) :
                    /\ docs[j].id = es[n].sourceDocumentId
                    /\ docs[j].name = es[n].sourceDocumentName
                    /\ docs[j].status = COMPLETED
           /\ \A m, n \in 1..Len(es) :
                 m < n =>
                    /\ es[m].id # es[n].id
                    /\ \A i, j \in 1..Len(docs) :
                          ( docs[i].id = es[m].sourceDocumentId
                            /\ docs[j].id = es[n].sourceDocumentId ) => i <= j

\* C17 witness: the second document completed while the first one is still in
\* stage 2, and the projection holds the two entries of the second document.
C17_Witness ==
    /\ rendering
    /\ Len(DocsOnScreen) = 2
    /\ DocsOnScreen[1].status = EXTRACTING_ENTITIES
    /\ DocsOnScreen[2].status = COMPLETED
    /\ Len(activeCaseEvents) = 2
    /\ \A n \in 1..2 : activeCaseEvents[n].sourceDocumentId = DocsOnScreen[2].id

\* C17 witness of order: both documents are COMPLETED and the projection
\* lists the two entries of the first document before those of the second.
C17_WitnessBoth ==
    /\ rendering
    /\ Len(DocsOnScreen) = 2
    /\ DocsOnScreen[1].status = COMPLETED /\ DocsOnScreen[2].status = COMPLETED
    /\ Len(activeCaseEvents) = 4
    /\ activeCaseEvents[2].sourceDocumentId = DocsOnScreen[1].id
    /\ activeCaseEvents[3].sourceDocumentId = DocsOnScreen[2].id

\* The events of es without their `id` field.
Unkeyed(es) ==
    [ k \in 1..Len(es) |-> [ f \in DOMAIN es[k] \ {"id"} |-> es[k][f] ] ]

\* C18: a render that finds the document list and the selection unchanged
\* yields the same case-wide projection and the same events for the timeline,
\* every field included, and no render modifies a document.
C18_PureProjection ==
    [][ ( rendering /\ DocsOnScreen' = DocsOnScreen /\ selectedDocId' = selectedDocId ) =>
           ( activeCaseEvents' = activeCaseEvents /\ events' = events ) ]_vars

\* C19: while a document D of the list on screen is selected, the events
\* shown, and the events handed to the export, are the events of the
\* case-wide projection stamped with D's id (compared without the `id`
\* field); they are empty when D is not COMPLETED.
C19_SelectionScoped ==
    rendering =>
       LET D == findDocument(DocsOnScreen, selectedDocId)
           scoped == IF D = None THEN <<>>
                     ELSE SelectSeq(activeCaseEvents,
                                    LAMBDA ev : ev.sourceDocumentId = D[1].id)
       IN  D # None =>
              /\ Unkeyed(events) = Unkeyed(scoped)
              /\ exported # None => Unkeyed(exported[1]) = Unkeyed(scoped)

C21_InFlightCap == Cardinality(calls) <= CONCURRENCY_LIMIT

\* Document d is the earliest QUEUED document of the list the scheduler works
\* on, it has a binary handle, and fewer than CONCURRENCY_LIMIT documents of
\* that list are in processing.
Admissible(d) ==
    \E caseId \in CaseIds :
       /\ Scheduled(caseId)
       /\ LET ds == DocsOf(caseId)
          IN  /\ Cardinality(InStage(ds)) < CONCURRENCY_LIMIT
              /\ \E j \in 1..Len(ds) :
                    /\ ds[j].id = d /\ ds[j].status = QUEUED /\ HasHandle(ds[j])
                    /\ \A i \in 1..(j - 1) : ds[i].status # QUEUED

\* C22: whenever fewer than CONCURRENCY_LIMIT documents of the scheduled list
\* are in processing and its earliest QUEUED document has a handle, that
\* document is eventually in GENERATING_PROSE, however many documents failed
\* before.
C22_SchedulerKeepsRunning ==
    \A d \in DocIds :
       Admissible(d) ~> ( Present(d) /\ Doc(d).status = GENERATING_PROSE )

\* C22 witness: two documents failed, one in each stage, and the third one
\* was admitted after them.
C22_Witness ==
    \E caseId \in CaseIds :
       LET ds == DocsOf(caseId)
       IN  /\ Len(ds) = 3
           /\ ds[1].status = ERROR /\ ds[2].status = ERROR
           /\ modelLog[ds[1].id] = <<"prose:start", "prose:fail">>
           /\ modelLog[ds[2].id] =
                 <<"prose:start", "prose:ok", "entities:start", "entities:fail">>
           /\ ds[3].status = GENERATING_PROSE
           /\ modelLog[ds[3].id] = <<"prose:start">>

\* C25: a document in EXTRACTING_ENTITIES or COMPLETED holds the prose that
\* stage 1 returned for it, which is the string stage 2 is called with and
\* which it keeps when it completes; a COMPLETED document holds the entries
\* a stage-2 response carried; a QUEUED or GENERATING_PROSE document holds
\* neither prose nor entries.
C25_StageArtifacts ==
    [][ \A q \in AllDocs' :
          /\ q[2].status \in {QUEUED, GENERATING_PROSE} =>
                q[2].proseDescription = None /\ q[2].entities = None
          /\ q[2].status \in {EXTRACTING_ENTITIES, COMPLETED} =>
                \E resp \in ProseResponses :
                   /\ ~generateDocumentProse(resp).threw
                   /\ q[2].proseDescription = Some(generateDocumentProse(resp).value)
          /\ q[2].status = EXTRACTING_ENTITIES =>
                \E c \in calls' :
                   /\ c.docId = q[2].id /\ c.stage = "entities"
                   /\ q[2].proseDescription = Some(c.prose)
          /\ q[2].status = COMPLETED =>
                /\ \E resp \in EntityResponses :
                      /\ ~extractEntitiesFromProse(resp).threw
                      /\ q[2].entities = Some(extractEntitiesFromProse(resp).value)
                /\ \A p \in AllDocs :
                      ( p[2].id = q[2].id /\ p[2].status = EXTRACTING_ENTITIES ) =>
                         /\ q[2].proseDescription = p[2].proseDescription
                         /\ \E c \in CallsOf(p[2].id) :
                               q[2].proseDescription = Some(c.prose) ]_vars

\* C25 witness: one document completed with the prose of stage 1 and the
\* entries of stage 2 while another one is in stage 2 with its prose.
C25_Witness ==
    \E p, q \in AllDocs :
       /\ p[2].status = COMPLETED
       /\ p[2].proseDescription = Some("[Page 1] Seen on 2024-01-02.")
       /\ p[2].entities = Some(<<Entry1>>)
       /\ q[2].status = EXTRACTING_ENTITIES
       /\ q[2].proseDescription = Some("[Page 1] Seen on 2024-01-02.")

\* C26: a document in GENERATING_PROSE, EXTRACTING_ENTITIES or COMPLETED
\* carries no error message, and a document in ERROR carries a non-empty one.
C26_ErrorIffFailed ==
    \A p \in AllDocs :
       /\ p[2].status \in {GENERATING_PROSE, EXTRACTING_ENTITIES, COMPLETED} =>
             p[2].error = None
       /\ p[2].status = ERROR => ( p[2].error # None /\ p[2].error # Some("") )

\* C26 witness: a failed document with its message next to a completed one
\* and one in processing, both without.
C26_Witness ==
    \E p, q, r \in AllDocs :
       /\ p[2].status = ERROR /\ p[2].error = Some(ErrorMessage)
       /\ q[2].status = COMPLETED /\ q[2].error = None
       /\ r[2].status \in ProcessingStatuses /\ r[2].error = None

\* The documents the viewer state refers to: the source document of the
\* item on display and the document behind the object URL on display.
ViewerRefs ==
    (IF viewingItem = None THEN {} ELSE {viewingItem[1].sourceDocumentId})
       \cup (IF viewingDocUrl = None THEN {} ELSE {viewingDocUrl[1].file})

\* C23: the viewer state (the item on display and the object URL) is empty
\* or refers to documents that still exist: no document that was removed
\* by deleting it, by deleting its case or by a reset is referenced.
C23_ViewerRefersToExisting == \A d \in ViewerRefs : Present(d)

\* The positions of the cases a step removes.
RemovedCases == { i \in 1..Len(cases) : \A k \in 1..Len(cases') : cases'[k].id # cases[i].id }

\* C24: a step that deletes a case removes that case with all its documents,
\* leaves every other case as it was, and leaves no live object URL through
\* which the file of one of its documents can be retrieved.
C24_DeleteCaseDisposes ==
    [][ ( build = "cases" /\ RemovedCases # {} ) =>
          LET gone == UNION { DocIdsOf(cases[i].documents) : i \in RemovedCases }
              kept == { cases[i].id : i \in (1..Len(cases)) \ RemovedCases }
          IN  /\ Cardinality(RemovedCases) = 1
              /\ cases' = SelectSeq(cases, LAMBDA c : c.id \in kept)
              /\ \A d \in gone : d \notin PresentIds'
              /\ \A u \in liveUrls' : u.file \notin gone ]_vars

\* new is old followed by n documents that are QUEUED, hold a binary handle
\* and nothing else, and have ids no document of old has.
Appended(old, new, n) ==
    /\ Len(new) = Len(old) + n
    /\ \A j \in 1..Len(old) : new[j] = old[j]
    /\ \A j \in (Len(old) + 1)..Len(new) :
          /\ new[j].status = QUEUED /\ new[j].rawFile # None
          /\ new[j].proseDescription = None /\ new[j].entities = None
          /\ new[j].error = None
          /\ new[j].id \notin DocIdsOf(old)

\* C27: an upload appends its documents, QUEUED and with their binary
\* handle, after the documents the active case (or the single list) already
\* has and changes no other case; the status of a document is always one of
\* QUEUED, GENERATING_PROSE, EXTRACTING_ENTITIES, COMPLETED and ERROR; an
\* upload while no case is active changes nothing.
C27_UploadAppendsQueued ==
    [][ /\ \A q \in AllDocs' :
             q[2].status \in {QUEUED, GENERATING_PROSE, EXTRACTING_ENTITIES, COMPLETED, ERROR}
        /\ nextDocId' # nextDocId =>
             IF build = "cases"
             THEN /\ Len(cases') = Len(cases)
                  /\ \E i \in 1..Len(cases) :
                        /\ cases[i].id = activeCaseId
                        /\ cases'[i].id = cases[i].id /\ cases'[i].name = cases[i].name
                        /\ Appended(cases[i].documents, cases'[i].documents,
                                    nextDocId' - nextDocId)
                        /\ \A k \in 1..Len(cases) : k # i => cases'[k] = cases[k]
             ELSE Appended(documents, documents', nextDocId' - nextDocId)
        /\ \A files \in Batches :
             ( activeCaseId = NoCase /\ handleFilesSelected(files) ) =>
                UNCHANGED <<cases, documents, activeCaseId, nextDocId, calls, storage>>
      ]_vars

\* C27 witness: a second upload was appended after a document that had
\* already completed.
C27_Witness ==
    \E caseId \in CaseIds :
       LET ds == DocsOf(caseId)
       IN  /\ Len(ds) = 3
           /\ ds[1].status = COMPLETED
           /\ ds[2].id > ds[1].id /\ ds[3].id > ds[2].id
           /\ ds[3].status = QUEUED /\ ds[3].rawFile # None
           /\ modelLog[ds[2].id] = <<>>

\* The list the queue effect works on: the documents of the active case, or
\* the single list; empty when no case is active.
ScheduledDocs ==
    IF build = "cases"
    THEN LET I == { i \in 1..Len(cases) : cases[i].id = activeCaseId }
         IN  IF I = {} THEN <<>> ELSE cases[Min(I)].documents
    ELSE documents

\* The position one evaluation of the scheduler admits in list ds, as a set:
\* empty when CONCURRENCY_LIMIT documents are in processing, when no
\* document is QUEUED, or when the first QUEUED document has no handle.
AdmittedPosition(ds) ==
    LET Q == { j \in 1..Len(ds) : ds[j].status = QUEUED }
    IN  IF Cardinality(InStage(ds)) >= CONCURRENCY_LIMIT \/ Q = {} THEN {}
        ELSE IF HasHandle(ds[Min(Q)]) THEN {Min(Q)} ELSE {}

\* C28: one evaluation of the scheduler admits at most one document, chosen
\* from the current list alone: none when CONCURRENCY_LIMIT documents are in
\* processing, when no document is QUEUED or when the first QUEUED document
\* has no handle; otherwise the first QUEUED document in list order, which
\* becomes GENERATING_PROSE with one invocation started for it, and no other
\* document changes.
C28_SchedulerStep ==
    [][ ( phase = "ready" /\ effectPending ) =>
          LET ds == ScheduledDocs
              a == AdmittedPosition(ds)
              after == [ j \in 1..Len(ds) |->
                           IF j \in a THEN [ ds[j] EXCEPT !.status = GENERATING_PROSE ]
                           ELSE ds[j] ]
          IN  /\ IF build = "cases"
                 THEN cases' = [ i \in 1..Len(cases) |->
                                   IF cases[i].id = activeCaseId
                                   THEN [ cases[i] EXCEPT !.documents = after ]
                                   ELSE cases[i] ]
                 ELSE documents' = after
              /\ a = {} => calls' = calls
              /\ \A j \in a :
                    /\ Cardinality(calls') = Cardinality(calls) + 1
                    /\ \A c \in calls' \ calls :
                          c.docId = ds[j].id /\ c.stage = "prose" /\ c.file = ds[j].rawFile
      ]_vars

\* C28 witness: after the scheduler ran, the first QUEUED document of the
\* list, which has no handle, and the QUEUED document with a handle behind
\* it are both still QUEUED although a slot is free.
C28_Witness ==
    /\ Ready
    /\ LET ds == ScheduledDocs
       IN  /\ Cardinality(InStage(ds)) < CONCURRENCY_LIMIT
           /\ \E i, j \in 1..Len(ds) :
                 /\ i < j
                 /\ ds[i].status = QUEUED /\ ~HasHandle(ds[i])
                 /\ ds[j].status = QUEUED /\ HasHandle(ds[j])

\* A property of a stored document; undefined (None) when it was left out.
StoredField(sd, f) == IF f \in DOMAIN sd THEN sd[f] ELSE None

\* C30: once the effects of a commit have run, the stored snapshot is the
\* current case collection without the binary handles: the same cases in
\* the same order, each with the same documents in the same order, every
\* property of a document but its handle as it is in memory.
C30_SnapshotCurrent ==
    ( build = "cases" /\ Ready ) =>
       /\ storage.present /\ storage.json
       /\ Len(storage.value) = Len(cases)
       /\ \A i \in 1..Len(cases) :
             /\ storage.value[i].id = cases[i].id
             /\ storage.value[i].name = cases[i].name
             /\ Len(storage.value[i].documents) = Len(cases[i].documents)
             /\ \A j \in 1..Len(cases[i].documents) :
                   /\ "rawFile" \notin DOMAIN storage.value[i].documents[j]
                   /\ \A f \in DocFields \ {"rawFile"} :
                         StoredField(storage.value[i].documents[j], f)
                            = cases[i].documents[j][f]

\* C30 witness: the snapshot was rewritten after a document with a handle
\* completed and another one failed.
C30_Witness ==
    /\ build = "cases" /\ Ready
    /\ \E i \in 1..Len(cases) :
          /\ Len(storage.value) = Len(cases)
          /\ \E j, k \in 1..Len(cases[i].documents) :
                /\ cases[i].documents[j].status = COMPLETED
                /\ cases[i].documents[j].rawFile # None
                /\ storage.value[i].documents[j].status = COMPLETED
                /\ cases[i].documents[k].status = ERROR
                /\ storage.value[i].documents[k].status = ERROR

\* The property f of the item on display; undefined (None) when the item
\* has no such property.
Displayed(item, f) == IF f \in DOMAIN item THEN Some(item[f]) ELSE None

\* The viewer shows fact `fact` of entry `event`: its page number, quote and
\* category, and the date and source document of the entry.
ShowsFact(item, event, fact) ==
    /\ Displayed(item, "pageNumber") = Some(fact.pageNumber)
    /\ Displayed(item, "quote") = Some(fact.quote)
    /\ Displayed(item, "category") = Some(fact.category)
    /\ Displayed(item, "date") = Some(event.date)
    /\ Displayed(item, "sourceDocumentId") = Some(event.sourceDocumentId)
    /\ Displayed(item, "sourceDocumentName") = Some(event.sourceDocumentName)

C33_AdmittedOnce == \A d \in DocIds : started[d] <= 1

\* C33 witness: three documents went through the scheduler, each invoked
\* once, and the scheduler was evaluated again after the last one ended.
C33_Witness ==
    /\ Ready
    /\ \A d \in DocIds :
          /\ Present(d) /\ Doc(d).status \in Terminal /\ Doc(d).rawFile # None
          /\ started[d] = 1

\* C34: every document in GENERATING_PROSE or EXTRACTING_ENTITIES has an
\* invocation in flight that will move it on, also when the collection was
\* loaded from a stored snapshot.
C34_ProcessingHasInvocation ==
    \A p \in AllDocs :
       p[2].status \in ProcessingStatuses => CallsOf(p[2].id) # {}

\* C35: a handle-less QUEUED document does not block later documents: when
\* the effects of a commit have run, it is not the case that fewer than
\* CONCURRENCY_LIMIT documents of the scheduled list are in processing
\* while a QUEUED document of that list with a binary handle is left
\* waiting.
C35_NoHeadOfLineBlocking ==
    Ready =>
       LET ds == ScheduledDocs
       IN  ~ ( /\ Cardinality(InStage(ds)) < CONCURRENCY_LIMIT
               /\ \E j \in 1..Len(ds) : ds[j].status = QUEUED /\ HasHandle(ds[j]) )

\* Document d has an invocation in flight.
Admitted(d) == Present(d) /\ Doc(d).status \in ProcessingStatuses /\ CallsOf(d) # {}

\* Document d is QUEUED with a binary handle in the list the scheduler works on.
Waiting(d) ==
    /\ Present(d) /\ Scheduled(CaseOf(d))
    /\ Doc(d).status = QUEUED /\ HasHandle(Doc(d))

\* C36: when every model call ends, an admitted document is eventually
\* COMPLETED or ERROR unless it is deleted, and a QUEUED document with a
\* binary handle is eventually admitted unless it is deleted or its case
\* stops being the active one.
C36_EveryDocumentEnds ==
    \A d \in DocIds :
       /\ Admitted(d) ~> ( ~Present(d) \/ Doc(d).status \in Terminal )
       /\ Waiting(d) ~> ( ~Waiting(d) )

\* The invocations that start, advance or end in a step.
StepCalls == (calls \ calls') \cup (calls' \ calls)

\* C37: an invocation is started only for a QUEUED document of the active
\* case, so a QUEUED document of an inactive case stays QUEUED; an invocation
\* that advances or ends, also after its case stopped being the active one,
\* changes the status of the document with its case id and document id;
\* and a document that changes in a step is the document of an invocation
\* of that step, in that invocation's case.
C37_CaseScoped ==
    [][ /\ \A c \in calls' \ calls :
             c.stage = "prose" =>
                /\ c.caseId = activeCaseId
                /\ \E p \in AllDocs :
                      p[1] = activeCaseId /\ p[2].id = c.docId /\ p[2].status = QUEUED
        /\ \A p \in AllDocs :
             ( p[2].status = QUEUED /\ p[1] # activeCaseId ) =>
                \A q \in AllDocs' : q[2].id = p[2].id => q = p
        /\ \A c \in calls \ calls' :
             \A p \in AllDocs :
                ( p[1] = c.caseId /\ p[2].id = c.docId ) =>
                   \E q \in AllDocs' :
                      q[1] = p[1] /\ q[2].id = p[2].id /\ q[2].status # p[2].status
        /\ \A p \in AllDocs :
             ( p \notin AllDocs' /\ p[2].id \in PresentIds' ) =>
                \E c \in StepCalls : c.caseId = p[1] /\ c.docId = p[2].id
      ]_vars

\* C37 witness: while another case is active, a case holds a document whose
\* invocation is still running in stage 2, a document that ended, and a
\* QUEUED document with a binary handle that is not admitted.
C37_Witness ==
    /\ Ready /\ activeCaseId # NoCase
    /\ \E p, q, r \in AllDocs :
          /\ p[1] # activeCaseId /\ q[1] = p[1] /\ r[1] = p[1]
          /\ p[2].status = EXTRACTING_ENTITIES /\ CallsOf(p[2].id) # {}
          /\ q[2].status \in Terminal
          /\ r[2].status = QUEUED /\ HasHandle(r[2])

\* C38: when the stage-2 call of a document succeeds with an empty text,
\* extractEntitiesFromProse returns the empty list without failing, the
\* document becomes COMPLETED with an empty entry list, and no event of the
\* case timeline projection comes from it, then or later.
C38_EmptyTextCompletes ==
    [][ /\ \A c \in calls :
             ( /\ c.stage = "entities" /\ <<c.caseId, c.docId>> \in DocKeys
               /\ EntitiesReturned(c, EmptyEntityText) \/ EntitiesFailed(c, EmptyEntityText) )
             => \E q \in AllDocs' :
                   /\ q[2].id = c.docId
                   /\ q[2].status = COMPLETED /\ q[2].entities = Some(<<>>)
                   /\ q[2].error = None
        /\ \A q \in AllDocs' :
             ( q[2].status = COMPLETED /\ q[2].entities = Some(<<>>) ) =>
                \A n \in 1..Len(activeCaseEvents') :
                   activeCaseEvents'[n].sourceDocumentId # q[2].id
      ]_vars

\* C38 witness: on screen, a document completed with an empty entry list
\* next to one that completed with entries; the projection holds the
\* entries of the latter only.
C38_Witness ==
    /\ rendering /\ Ready
    /\ \E i, j \in 1..Len(DocsOnScreen) :
          /\ DocsOnScreen[i].status = COMPLETED /\ DocsOnScreen[i].entities = Some(<<>>)
          /\ modelLog[DocsOnScreen[i].id]
                = <<"prose:start", "prose:ok", "entities:start", "entities:ok">>
          /\ DocsOnScreen[j].status = COMPLETED /\ DocsOnScreen[j].entities # Some(<<>>)
          /\ activeCaseEvents # <<>>
          /\ \A n \in 1..Len(activeCaseEvents) :
                activeCaseEvents[n].sourceDocumentId = DocsOnScreen[j].id

\* The position in `es` of the event with the id of `ev`.
PositionIn(es, ev) == CHOOSE n \in 1..Len(es) : es[n].id = ev.id

\* out holds the events of the input, each once and as it was given (its
\* facts in their order), those with equal dates in their input order.
StablePermutation(in, out) ==
    /\ Len(out) = Len(in)
    /\ \A n \in 1..Len(in) : \E m \in 1..Len(out) : out[m] = in[n]
    /\ \A m, n \in 1..Len(out) :
          ( m < n /\ out[m].date = out[n].date ) =>
             PositionIn(in, out[m]) < PositionIn(in, out[n])

\* The rows of the export follow the sorted entries, the facts of an entry
\* in their order.
RowsFollow(out, rows) ==
    /\ Len(rows) = Len(Flatten([ n \in 1..Len(out) |-> out[n].facts ]))
    /\ \A n \in 1..Len(rows) :
          LET f == Flatten([ m \in 1..Len(out) |->
                               [ k \in 1..Len(out[m].facts) |-> <<out[m], out[m].facts[k]>> ] ])[n]
          IN  /\ rows[n].date = f[1].date
              /\ rows[n].detail = f[2].detail /\ rows[n].category = f[2].category

\* C31 as claimed: the timeline view and the export lay out a stable
\* permutation of the given entries in non-decreasing order of the code
\* units of the date string (lexicographic order), and leave their input
\* as it was.
C31_LexicographicOrder ==
    sortedEvents # None =>
       LET out == sortedEvents[1].events
       IN  /\ StablePermutation(events, out)
           /\ \A m, n \in 1..Len(out) :
                 m < n => SeqCompare(CodeUnits(out[m].date), CodeUnits(out[n].date)) <= 0

\* C31 amended: the timeline view and the export lay out a stable
\* permutation of the given entries in non-decreasing order of
\* localeCompare on the date string; the facts of an entry keep their
\* order, the rows of the export follow that order, and the input list is
\* left as it was.
C31_LocaleOrder ==
    [][ sortedEvents' # None =>
          LET out == sortedEvents'[1].events
          IN  /\ events' = events
              /\ StablePermutation(events, out)
              /\ \A m, n \in 1..Len(out) :
                    m < n => localeCompare(out[m].date, out[n].date) <= 0
              /\ sortedEvents'[1].by = "exportChronologyToDocx" =>
                    RowsFollow(out, sortedEvents'[1].rows) ]_vars

\* C31 witness: the export sorted three entries given out of order, two of
\* them with the same date, and the entry with two facts among them.
C31_Witness ==
    /\ sortedEvents # None /\ sortedEvents[1].by = "exportChronologyToDocx"
    /\ Len(events) = 3
    /\ events[1].date = "Unknown" /\ events[2].date = "2024-01-10"
    /\ events[3].date = "2024-01-10"
    /\ sortedEvents[1].events = << events[2], events[3], events[1] >>
    /\ Len(sortedEvents[1].rows) = 4

\* C39: at application startup a stored snapshot that loads successfully
\* (to a collection that is not empty) is not replaced by an empty
\* collection by the first automatic save.
C39_StartupKeepsSnapshot ==
    [][ ( phase = "mount" /\ loadCases(storage) # <<>> ) =>
           ( storage'.present /\ storage'.json /\ storage'.value # <<>> ) ]_vars

\* The two stores are changed by the step only as listed: `files` names
\* the keys of the binary store that may change, `snapshot` tells whether
\* the stored snapshot may.
StoresChangeOnly(files, snapshot) ==
    /\ \A d \in DocIds \ files : idbFiles'[d] = idbFiles[d]
    /\ ~snapshot => loadCasesResult(idbData') = loadCasesResult(idbData)

\* What C32 says of every call but getFile: a saveFile that commits stores
\* its file under its id alone, deleteFile empties its id alone, neither
\* changes what loadCases returns, and saveCases and loadCases change no
\* file.
C32_Writes(r) ==
    /\ ( r.op = "saveFile" /\ r.outcome = "resolved" ) =>
          idbFiles'[r.id] = r.arg /\ StoresChangeOnly({r.id}, FALSE)
    /\ ( r.op = "saveFile" /\ r.outcome = "rejected" ) => StoresChangeOnly({}, FALSE)
    /\ r.op = "deleteFile" => idbFiles'[r.id] = None /\ StoresChangeOnly({r.id}, FALSE)
    /\ r.op = "saveCases" => StoresChangeOnly({}, TRUE)
    /\ r.op = "loadCases" => StoresChangeOnly({}, FALSE)
    /\ r.op = "getFile" => StoresChangeOnly({}, FALSE)

====
